---- MODULE Spec2Model ----
(***************************************************************************)
(* The tool-augmented streaming chat orchestrator of nano-MCP              *)
(* (src/src/llm/llm_mcp_client.py, class LLMMCPClient) together with the   *)
(* websocket front end that drives it (src/src/llm/host.py).               *)
(*                                                                         *)
(* Text is a sequence of tokens (strings).  The tags of the wire format    *)
(* are tokens of their own; the closing marker </mcp_tool_call> is the two *)
(* tokens "</mcp_tool" "_call>", so that a provider may deliver it split   *)
(* over two fragments.  A fragment is a text, a provider stream is a       *)
(* sequence of fragments delivered one at a time.                          *)
(***************************************************************************)
EXTENDS Integers, Sequences, FiniteSets, TLC

VARIABLES
    host_model,     \* self.host_model: "openai" (merging) or "groq" (replacing)
    initialized,    \* self.initialized
    tools,          \* self.tools: the catalog snapshot
    messages,       \* self.messages: the History
    pc,             \* position of the session's task (host loop + generator)
    depth,          \* depth of the running interactive_stream_chat frame
    max_depth,      \* max_depth of the running top-level call
    user_message,   \* user_message of the running top-level call
    full_response_segment,  \* the frame's accumulated buffer
    tool_call_detected,     \* the frame's detection flag
    llm_output_started,     \* the frame's narration flag
    stream_state,   \* the frame's provider stream: "none", "open", "exhausted",
                    \* "abandoned" (left at the break) or "raised"
    nfrag,          \* fragments the provider has delivered in this session
    tool_calls,     \* the frame's extracted requests
    call_idx,       \* index of the request being dispatched (single path)
    attempt,        \* execute_tool's loop variable
    tool_results_for_history, \* the frame's accumulated outcomes
    events,         \* what the front end received for the running user message
    frame_start,    \* Len(events) when the running frame was entered
    gw,             \* the frame's Gateway log: requests, responses, sleeps
    nstreams,       \* provider streams opened by the running top-level call
    dispatched,     \* the single-call dispatches the running top-level call
                    \* has completed with one answer to all their attempts
    stream_input,   \* the History handed to the most recent provider stream
    nmsgs,          \* user messages the host has read
    nfetch,         \* fetch_tools calls the session has made
    tools_cache,    \* the Gateway's global tools_cache: << >> is None,
                    \* << catalog >> a stored catalog
    server_tools_mapping,   \* the Gateway's global server_tools_mapping,
                            \* as a set of << tool, server >> pairs
    access,         \* the get_tools calls of the Gateway process
    batch,          \* the /batch-execute request the Gateway serves
    backend_calls,  \* the HTTP requests the Gateway has made to the servers
    active_connections,     \* ConnectionManager.active_connections: the
                            \* websocket held for each connection id (0: none)
    socket          \* the websockets of the front end, each with the session
                    \* its endpoint runs

vars == << host_model, initialized, tools, messages, pc, depth, max_depth,
           user_message, full_response_segment, tool_call_detected,
           llm_output_started, stream_state, nfrag, tool_calls, call_idx, attempt,
           tool_results_for_history, events, frame_start, gw, nstreams,
           dispatched, stream_input, nmsgs, nfetch, tools_cache, server_tools_mapping,
           access, batch, backend_calls, active_connections, socket >>

-----------------------------------------------------------------------------
(* Bounds of the model. *)

\* Largest max_depth a top-level call is given.
MaxDepth == 2
\* Most fragments the provider delivers in one session, over all its streams.
MaxFragments == 2
\* User messages the front end reads in one session.
MaxUserMessages == 2
\* Most requests of a dispatch whose request list is given directly.
MaxCalls == 2

-----------------------------------------------------------------------------
(* Text. *)

OpenTag   == << "<mcp_tool_call>" >>
CloseTag  == << "</mcp_tool", "_call>" >>
NameOpen  == << "<tool_name>" >>
NameClose == << "</tool_name>" >>
ArgsOpen  == << "<arguments>" >>
ArgsClose == << "</arguments>" >>

Whitespace == { " " }

\* JSON texts a model may write as arguments, and the value each parses to.
JsonA    == "{\"file_path\":\"a.txt\"}"
JsonB    == "{\"path\":\"\"}"
Garbage  == "{{{"
ValueA   == "obj(file_path=a.txt)"
ValueB   == "obj(path=)"
EmptyObj == "obj()"

Max(a, b) == IF a >= b THEN a ELSE b
Min(a, b) == IF a <= b THEN a ELSE b

\* s[from..] as a sequence (empty when from is past the end).
Drop(s, from) == SubSeq(s, from, Len(s))

\* pat occurs in s at position i.
OccursAt(s, pat, i) ==
    /\ i >= 1
    /\ i + Len(pat) - 1 <= Len(s)
    /\ SubSeq(s, i, i + Len(pat) - 1) = pat

\* re.search of a literal: the least position >= from where pat occurs, 0 if none.
Find(s, pat, from) ==
    LET hits == { i \in Max(from, 1)..Len(s) : OccursAt(s, pat, i) }
    IN  IF hits = {} THEN 0 ELSE CHOOSE i \in hits : \A j \in hits : i <= j

\* `pat in s`
Contains(s, pat) == Find(s, pat, 1) # 0

\* str.strip()
RECURSIVE LStrip(_)
LStrip(s) == IF s # << >> /\ Head(s) \in Whitespace THEN LStrip(Tail(s)) ELSE s
RECURSIVE RStrip(_)
RStrip(s) ==
    IF s # << >> /\ s[Len(s)] \in Whitespace
    THEN RStrip(SubSeq(s, 1, Len(s) - 1)) ELSE s
Strip(s) == RStrip(LStrip(s))

-----------------------------------------------------------------------------
(* The streaming envelope detector's tests (interactive_stream_chat). *)

\* "</mcp_tool_call>" in full_response_segment
HasCloseMarker(buf) == Contains(buf, CloseTag)

\* re.search(r'(<mcp_tool_call>.*?</mcp_tool_call>)', buf, re.DOTALL):
\* << start, end >> of the leftmost match, << 0, 0 >> when there is none.
BlockMatch(buf) ==
    LET o == Find(buf, OpenTag, 1)
        c == IF o = 0 THEN 0 ELSE Find(buf, CloseTag, o + Len(OpenTag))
    IN  IF o = 0 \/ c = 0 THEN << 0, 0 >> ELSE << o, c + Len(CloseTag) - 1 >>

RawToolCallBlockGreedy(buf) ==
    LET o     == Find(buf, OpenTag, 1)
        ends  == { c \in 1..Len(buf) : c > o /\ OccursAt(buf, CloseTag, c) }
        c_max == CHOOSE c \in ends : \A d \in ends : d <= c
    IN  IF o = 0 \/ ends = {} THEN << >>
        ELSE Strip(SubSeq(buf, o, c_max + Len(CloseTag) - 1))

\* block_match.group(1).strip() of the detector: the verbatim envelope, or << >>.
RawToolCallBlock(buf) ==
    LET m == BlockMatch(buf)
    IN  IF m[1] = 0 THEN << >> ELSE Strip(SubSeq(buf, m[1], m[2]))

-----------------------------------------------------------------------------
(* The tool-call extractor (parse_tool_calls). *)

\* What json.loads yields for a text that is valid JSON as it stands.
JsonTexts == { JsonA, JsonB }
json_loads(tok) ==
    IF tok = JsonA THEN << ValueA >>
    ELSE IF tok = JsonB THEN << ValueB >>
    ELSE << >>

\* The JSON values json_repair finds in a text: it parses the first value and
\* goes on looking for further ones, skipping what starts no value (tags,
\* stray characters).
RECURSIVE JsonValuesIn(_)
JsonValuesIn(text) ==
    IF text = << >> THEN << >>
    ELSE IF Head(text) \in JsonTexts
         THEN json_loads(Head(text)) \o JsonValuesIn(Tail(text))
         ELSE JsonValuesIn(Tail(text))

\* json.loads(json_repair.repair_json(arguments_str, return_objects=False)).
\* json_repair is a library outside the repository; for a text holding no JSON
\* value at all it returns, depending on its version, the text "" (json.loads
\* of it raises) or the JSON empty string (json.loads yields "").  lib names
\* which: "raises" or "empty_string".  The result is << ok, value >>.
RepairModes == { "raises", "empty_string" }
repair_and_load(arguments_str, lib) ==
    LET vals == JsonValuesIn(arguments_str)
    IN  IF Len(vals) = 0
        THEN IF lib = "raises" THEN << FALSE, << >> >>
             ELSE << TRUE, << "str()" >> >>
        ELSE IF Len(vals) = 1 THEN << TRUE, vals >>
        ELSE << TRUE, << "list" >> \o vals >>

\* Lines 232-241: the fallback for a text without the outer wrapper,
\* re.match(r'^\s*<tool_name>(.*?)</tool_name>\s*<arguments>(.*?)($|</arguments>\s*$)').
\* The positions k of a </tool_name> that is followed, after white space, by
\* <arguments>; the lazy group 1 stops at the least of them.
InnerNameEnds(s) ==
    { k \in 2..Len(s) :
        /\ OccursAt(s, NameClose, k)
        /\ LStrip(Drop(s, k + 1)) # << >>
        /\ OccursAt(LStrip(Drop(s, k + 1)), ArgsOpen, 1) }

InnerMatch(content) ==
    LET s == Strip(content)
    IN  IF ~OccursAt(s, NameOpen, 1) \/ InnerNameEnds(s) = {}
        THEN [ ok |-> FALSE, tool_name |-> << >>, arguments_str |-> << >> ]
        ELSE LET k    == CHOOSE i \in InnerNameEnds(s) :
                             \A j \in InnerNameEnds(s) : i <= j
                 rest == Tail(LStrip(Drop(s, k + 1)))
                 \* the lazy group 2 ends before a final </arguments>, else at the end
                 g2   == IF rest # << >> /\ rest[Len(rest)] = ArgsClose[1]
                         THEN SubSeq(rest, 1, Len(rest) - 1) ELSE rest
             IN  [ ok |-> TRUE,
                   tool_name |-> Strip(SubSeq(s, 2, k - 1)),
                   arguments_str |-> Strip(g2) ]

\* Lines 247-266: name and raw argument text of a block's content.
BlockFields(block) ==
    LET n1 == Find(block, NameOpen, 1)
        n2 == IF n1 = 0 THEN 0 ELSE Find(block, NameClose, n1 + 1)
        a  == Find(block, ArgsOpen, 1)
    IN  IF n1 = 0 \/ n2 = 0 \/ a = 0
        THEN [ ok |-> FALSE, tool_name |-> << >>, arguments_str |-> << >> ]
        ELSE [ ok |-> TRUE,
               tool_name |-> Strip(SubSeq(block, n1 + 1, n2 - 1)),
               arguments_str |-> Strip(Drop(block, a + 1)) ]

RequestsOfNoRepair(f, lib) ==
    IF ~f.ok THEN << >>
    ELSE IF f.arguments_str = << >>
         THEN << [ tool_name |-> f.tool_name, arguments |-> << EmptyObj >> ] >>
         ELSE IF Len(f.arguments_str) = 1 /\ f.arguments_str[1] \in JsonTexts
              THEN << [ tool_name |-> f.tool_name,
                        arguments |-> json_loads(f.arguments_str[1]) ] >>
              ELSE << >>

RequestsOfAlwaysRepair(f, lib) ==
    IF ~f.ok THEN << >>
    ELSE LET r == repair_and_load(f.arguments_str, lib)
         IN  IF r[1]
             THEN << [ tool_name |-> f.tool_name, arguments |-> r[2] ] >>
             ELSE << >>

\* Lines 268-293: the request list built from a name and a raw argument text.
RequestsOf(f, lib) ==
    IF ~f.ok THEN << >>
    ELSE IF f.arguments_str = << >>
         THEN << [ tool_name |-> f.tool_name, arguments |-> << EmptyObj >> ] >>
         ELSE LET r == repair_and_load(f.arguments_str, lib)
              IN  IF r[1]
                  THEN << [ tool_name |-> f.tool_name, arguments |-> r[2] ] >>
                  ELSE << >>

RECURSIVE parse_tool_calls_every_block(_, _)
parse_tool_calls_every_block(content, lib) ==
    LET m == BlockMatch(content)
    IN  IF m[1] = 0
        THEN RequestsOf(InnerMatch(content), lib)
        ELSE RequestsOf(BlockFields(
                 Strip(SubSeq(content, m[1] + Len(OpenTag), m[2] - Len(CloseTag)))), lib)
             \o (IF BlockMatch(Drop(content, m[2] + 1))[1] = 0 THEN << >>
                 ELSE parse_tool_calls_every_block(Drop(content, m[2] + 1), lib))

\* parse_tool_calls(content): zero or one request.
parse_tool_calls(content, lib) ==
    LET m == BlockMatch(content)
    IN  IF m[1] = 0
        THEN RequestsOf(InnerMatch(content), lib)
        ELSE RequestsOf(BlockFields(
                 Strip(SubSeq(content, m[1] + Len(OpenTag), m[2] - Len(CloseTag)))), lib)

-----------------------------------------------------------------------------
(* Conversation History (add_message and its two provider variants).       *)
(* A message is [role, parts, content]: parts tells whether the content is *)
(* a content-parts sequence (one text per part) or one plain text, held as *)
(* a one-element sequence.                                                 *)

HostModels == { "openai", "groq" }

Msg(role, parts, text) == [ role |-> role, parts |-> parts, content |-> << text >> ]

add_message_openai_no_merge(msgs, role, content, no_tool) ==
    IF role = "assistant"
    THEN Append(msgs, Msg("assistant", TRUE, content))
    ELSE Append(msgs, Msg(role, FALSE, content))

add_message_openai_replace(msgs, role, content, no_tool) ==
    IF role = "assistant"
    THEN IF msgs # << >> /\ msgs[Len(msgs)].role = "assistant"
         THEN [ msgs EXCEPT ![Len(msgs)].content = << content >> ]
         ELSE Append(msgs, Msg("assistant", TRUE, content))
    ELSE Append(msgs, Msg(role, FALSE, content))

\* _add_message_openai(role, content, no_tool) for a text content
add_message_openai(msgs, role, content, no_tool) ==
    IF role = "assistant"
    THEN IF msgs # << >> /\ msgs[Len(msgs)].role = "assistant"
         THEN [ msgs EXCEPT ![Len(msgs)].content = Append(@, content) ]
         ELSE Append(msgs, Msg("assistant", TRUE, content))
    ELSE Append(msgs, Msg(role, FALSE, content))

add_message_groq_always_system(msgs, role, content, no_tool) ==
    Append(msgs, Msg("system", FALSE, content))

add_message_groq_replace_last(msgs, role, content, no_tool) ==
    LET m == Msg(IF no_tool THEN role ELSE "system", FALSE, content)
    IN  IF msgs # << >> /\ msgs[Len(msgs)].role = m.role
        THEN [ msgs EXCEPT ![Len(msgs)] = m ]
        ELSE Append(msgs, m)

\* _add_message_groq(role, content, no_tool)
add_message_groq(msgs, role, content, no_tool) ==
    IF no_tool
    THEN Append(msgs, Msg(role, FALSE, content))
    ELSE Append(msgs, Msg("system", FALSE, content))

\* add_message(role, content, no_tool) of an initialized session
add_message(hm, msgs, role, content, no_tool) ==
    IF hm = "openai" THEN add_message_openai(msgs, role, content, no_tool)
    ELSE IF hm = "groq" THEN add_message_groq(msgs, role, content, no_tool)
    ELSE msgs

\* The catalog the Gateway serves (tool names stand for the descriptors).
Catalog == << "read_file", "run_command" >>

\* create_system_prompt(): the template with the tools section filled in.
create_system_prompt(tls) == << "INTERACTIVE_SYSTEM_PROMPT" >> \o tls

-----------------------------------------------------------------------------
(* Structured values and their encodings. *)

\* A result mapping: whether it has the key "error", that key's value, and
\* the rest of the mapping.
Dict(has_error, error, rest) ==
    [ has_error |-> has_error, error |-> error, rest |-> rest ]
EmptyDict      == Dict(FALSE, << >>, << >>)
ErrorDict(msg) == Dict(TRUE, msg, << >>)
\* What a tool may answer: a plain payload, or a payload with an "error" key.
PlainResult    == Dict(FALSE, << >>, << "type=text", "text=hello" >>)
ErrKeyResult   == Dict(TRUE, << "no such file" >>, << "code=2" >>)

\* json.dumps of a result mapping
dumps_dict(d) ==
    << "{" >> \o (IF d.has_error THEN << "error=" >> \o d.error ELSE << >>)
              \o d.rest \o << "}" >>

\* The payload of a TOOL_CALL event: json.dumps({'name':..., 'arguments':...})
ToolCallPayload(name, arguments) ==
    << "{", "name=" >> \o name \o << "arguments=" >> \o arguments \o << "}" >>

\* The payload of a TOOL_RESULT event: json.dumps({'name', 'status', 'data'})
ToolResultPayload(name, status, data) ==
    << "{", "name=" >> \o name \o << "status=", status, "data=" >> \o data \o << "}" >>

Event(tag, payload) == [ tag |-> tag, payload |-> payload ]

MaxDepthText   == << "Maximum tool call depth reached. Stopping here." >>
DetectedText   == << "Tool call detected. Processing..." >>
ExecutingText  == << "Executing tools..." >>
FinishedText   == << "Tool execution finished. Asking LLM to continue..." >>
ParseFailText  == << "Detected XML structure, but failed to parse valid tool calls." >>
SeparatorText  == << "___\n\n" >>
StreamFaultText(e) == << "Error during LLM stream: " >> \o e

\* An entry of tool_results_for_history.
Outcome(call, key, value) ==
    [ tool_name |-> call.tool_name, arguments |-> call.arguments,
      key |-> key, value |-> value ]

\* json.dumps(tool_results_for_history, indent=2)
RECURSIVE dumps_outcomes(_)
dumps_outcomes(rs) ==
    IF rs = << >> THEN << >>
    ELSE << "{", "tool_name=" >> \o Head(rs).tool_name
         \o << "arguments=" >> \o Head(rs).arguments
         \o << Head(rs).key >> \o Head(rs).value \o << "}" >>
         \o dumps_outcomes(Tail(rs))

\* Lines 486-487: the outcome summary recorded in History.
tool_result_content(rs) ==
    << "Executed tools with results:\n", "[" >> \o dumps_outcomes(rs) \o << "]" >>

-----------------------------------------------------------------------------
(* The environment: provider fragments, user messages, Gateway answers. *)

Narration == "Reading file. "
Envelope(name, args) ==
    OpenTag \o NameOpen \o << name >> \o NameClose
            \o ArgsOpen \o << args >> \o ArgsClose \o CloseTag

\* The fragments a provider stream is made of: narration, an empty chunk,
\* narration followed by a whole envelope, an envelope up to the first half
\* of its closing marker, the second half of the marker, an envelope without
\* a name element, an envelope whose arguments hold no JSON value, and two
\* whole envelopes in one fragment.
Fragments ==
    { << Narration >>,
      << >>,
      << Narration >> \o Envelope("read_file", JsonA),
      SubSeq(Envelope("run_command", JsonB), 1, Len(Envelope("run_command", JsonB)) - 1),
      << "_call>" >>,
      OpenTag \o ArgsOpen \o << JsonA >> \o ArgsClose \o CloseTag,
      OpenTag \o NameOpen \o << "read_file" >> \o NameClose
              \o ArgsOpen \o << Garbage >> \o CloseTag,
      Envelope("read_file", JsonA) \o Envelope("run_command", JsonB) }

\* What a provider stream may raise.
StreamFaults == { << "APIConnectionError" >> }

\* The user messages the front end may read ("" is not appended to History).
UserMessages == { << "Please read a.txt" >> }

\* The requests a dispatch may be given directly.
Requests ==
    { [ tool_name |-> << "read_file" >>,   arguments |-> << ValueA >> ],
      [ tool_name |-> << "run_command" >>, arguments |-> << ValueB >> ] }

\* An HTTP answer of the Gateway: kind "ok" (status 200), "http_error" (any
\* other status) or "exception" (a transport fault raised by the http client).
Answer(kind, status, result, results, text) ==
    [ kind |-> kind, status |-> status, result |-> result,
      results |-> results, text |-> text ]

\* POST /execute
ExecuteAnswers ==
    { Answer("ok", 200, PlainResult, << >>, << >>),
      Answer("ok", 200, ErrKeyResult, << >>, << >>),
      Answer("http_error", 500, EmptyDict, << >>, << "Tool execution failed: boom" >>),
      Answer("exception", 0, EmptyDict, << >>, << "ReadTimeout" >>) }

\* One element of a batch answer: the keys it has and their values.
BatchItem(has_success, success, result, has_error, error) ==
    [ has_success |-> has_success, success |-> success, result |-> result,
      has_error |-> has_error, error |-> error ]

\* api_batch_execute_tools: one item per request, in request order, each
\* flagged success (with the result) or failure (with the error detail).
GatewayItems ==
    { BatchItem(TRUE, TRUE, PlainResult, FALSE, << >>),
      BatchItem(TRUE, FALSE, EmptyDict, TRUE, << "Tool 'x' not found." >>) }

\* POST /batch-execute with n requests
BatchAnswers(n) ==
    { Answer("ok", 200, EmptyDict, r, << >>) : r \in [ 1..n -> GatewayItems ] }
    \cup { Answer("http_error", 500, EmptyDict, << >>, << "Internal Server Error" >>),
           Answer("exception", 0, EmptyDict, << >>, << "ReadTimeout" >>) }

\* An entry of the frame's Gateway log; nev is the number of events emitted
\* when the entry was made.
GwEntry(kind, op, body, answer, nev) ==
    [ kind |-> kind, op |-> op, body |-> body, answer |-> answer, nev |-> nev ]
NoAnswer == Answer("none", 0, EmptyDict, << >>, << >>)

-----------------------------------------------------------------------------
(* The Gateway's catalog cache (nano_mcp_client.py): fetch_tools_from_servers *)
(* and get_tools.                                                             *)

\* Number of get_tools calls the Gateway process serves.
MaxAccesses == 3

\* MCP_SERVER_URLS and the tools each server lists.
Servers == << "http://a", "http://b" >>
ServerTools(server) ==
    IF server = "http://a" THEN << "read_file" >>
    ELSE << "run_command", "read_file" >>

\* fetch_tools_from_servers when the servers of `up` answer 200 and the
\* others fail (their exception is caught and printed): the tools of the
\* answering servers in server order, and the server of each tool.
RECURSIVE FetchedTools(_, _)
FetchedTools(up, i) ==
    IF i > Len(Servers) THEN << >>
    ELSE (IF Servers[i] \in up THEN ServerTools(Servers[i]) ELSE << >>)
         \o FetchedTools(up, i + 1)

\* server_tools_map[tool_name] = server_url: the last answering server that
\* lists a tool is the one the tool is mapped to.
Lists(i, tool) ==
    \E k \in 1..Len(ServerTools(Servers[i])) : ServerTools(Servers[i])[k] = tool
ListedTools ==
    UNION { { ServerTools(Servers[i])[k] : k \in 1..Len(ServerTools(Servers[i])) } :
               i \in 1..Len(Servers) }
FetchedMap(up) ==
    { pair \in ListedTools \X { Servers[i] : i \in 1..Len(Servers) } :
         \E i \in 1..Len(Servers) :
            /\ Servers[i] = pair[2]
            /\ Servers[i] \in up
            /\ Lists(i, pair[1])
            /\ \A j \in (i + 1)..Len(Servers) :
                  ~(Servers[j] \in up /\ Lists(j, pair[1])) }

fetch_tools_from_servers(up) ==
    [ all_tools |-> FetchedTools(up, 1), server_tools_map |-> FetchedMap(up) ]

\* A get_tools call: not started, suspended in the fetch, or returned with
\* the pair (tools_cache, server_tools_mapping) it read.
NotStarted == [ pc |-> "idle", tools |-> << >>, mapping |-> {} ]
Fetching   == [ pc |-> "fetching", tools |-> << >>, mapping |-> {} ]
Returned(cache, mapping) == [ pc |-> "returned", tools |-> cache, mapping |-> mapping ]

\* The tool names a /batch-execute request may carry, and the longest
\* request list.
ToolNames == { "read_file", "run_command", "no_such_tool" }
MaxRequests == 2

\* A GET /list/tools round of fetch_tools_from_servers and a POST
\* /execute/tool of api_execute_tool, as entries of backend_calls.
ListCall(all_tools) ==
    [ op |-> "list_tools", server |-> "", tool |-> "", tools |-> all_tools,
      answer |-> "ok" ]
ExecuteCall(server, tool, answer) ==
    [ op |-> "execute_tool", server |-> server, tool |-> tool, tools |-> << >>,
      answer |-> answer ]

\* What a server may do with POST /execute/tool: answer 200 with a result,
\* answer another status, or fail (the http client raises).
BackendAnswers ==
    { [ kind |-> "ok", status |-> 200, result |-> PlainResult ],
      [ kind |-> "ok", status |-> 200, result |-> ErrKeyResult ],
      [ kind |-> "status", status |-> 503, result |-> EmptyDict ],
      [ kind |-> "fault", status |-> 0, result |-> EmptyDict ] }

\* An element of the list api_batch_execute_tools returns.
ResultItem(tool, success, result, error) ==
    [ tool |-> tool, success |-> success, result |-> result, error |-> error ]

\* api_execute_tool from line 141 on, given the mapping its get_tools call
\* returned and the server's answer: the value returned, or the exception
\* raised (HTTPException 404 before the try; inside the try a non-200
\* status raises an HTTPException that the except clause wraps, like a
\* fault, in an HTTPException 500).
Returns(result) ==
    [ raised |-> "", status_code |-> 200, result |-> result, detail |-> "" ]
Raises(exception, status_code, detail) ==
    [ raised |-> exception, status_code |-> status_code, result |-> EmptyDict,
      detail |-> detail ]
api_execute_tool_no_wrap(tool, mapping, answer) ==
    IF ~(\E pair \in mapping : pair[1] = tool)
    THEN Raises("HTTPException", 404, "Tool not found.")
    ELSE IF answer.kind = "ok" THEN Returns(answer.result)
    ELSE IF answer.kind = "status"
    THEN Raises("HTTPException", answer.status, "Tool execution failed with status code")
    ELSE Raises("ConnectError", 0, "")
api_execute_tool(tool, mapping, answer) ==
    IF ~(\E pair \in mapping : pair[1] = tool)
    THEN Raises("HTTPException", 404, "Tool not found.")
    ELSE IF answer.kind = "ok" THEN Returns(answer.result)
    ELSE IF answer.kind = "status"
    THEN Raises("HTTPException", 500, "Tool execution failed: status code")
    ELSE Raises("HTTPException", 500, "Tool execution failed: fault")

\* The /batch-execute request: not received, between two requests of its
\* loop, suspended in the get_tools call `slot` of api_execute_tool,
\* returned, or failed with an exception its loop does not catch.
NoBatch ==
    [ pc |-> "idle", requests |-> << >>, results |-> << >>, slot |-> 0 ]

\* Lines 97-98: the module's globals when the process starts.
GatewayStarted ==
    /\ tools_cache = << >>
    /\ server_tools_mapping = {}
    /\ access = [ i \in 1..MaxAccesses |-> NotStarted ]
    /\ batch = NoBatch
    /\ backend_calls = << >>

-----------------------------------------------------------------------------
(* The front end's connections (host.py): ConnectionManager and the        *)
(* websockets served by websocket_endpoint, each with its own session.     *)

\* Websockets the front end accepts.
MaxSockets == 2
\* Chunks a session's turn yields before it ends.
MaxChunks == 2
\* User messages a websocket's client sends.
MaxTurns == 1

\* The connection ids a client may put in the path /ws/{connection_id}.
ConnectionIds == { "c1", "c2" }

\* A websocket that has not connected yet: its endpoint's position, its
\* connection id, the History of its session's LLMMCPClient, the texts it
\* was sent (each with the socket of the session that produced it), the
\* chunks its running turn has yielded and the user messages it has sent.
NoSocket ==
    [ pc |-> "new", connection_id |-> "", messages |-> << >>, received |-> << >>,
      nsent |-> 0, turns |-> 0 ]

\* host.py line 46: manager = ConnectionManager()
HostStarted ==
    /\ active_connections = [ id \in ConnectionIds |-> 0 ]
    /\ socket = [ w \in 1..MaxSockets |-> NoSocket ]

-----------------------------------------------------------------------------
(* The session: construction, initialization and the front end's loop. *)

Init ==
    /\ host_model \in HostModels
    /\ initialized = FALSE
    /\ tools = << >>
    /\ messages = << >>
    /\ pc = "new"
    /\ depth = 0
    /\ max_depth = 0
    /\ user_message = << >>
    /\ full_response_segment = << >>
    /\ tool_call_detected = FALSE
    /\ llm_output_started = FALSE
    /\ stream_state = "none"
    /\ nfrag = 0
    /\ tool_calls = << >>
    /\ call_idx = 0
    /\ attempt = 0
    /\ tool_results_for_history = << >>
    /\ events = << >>
    /\ frame_start = 0
    /\ gw = << >>
    /\ nstreams = 0
    /\ dispatched = {}
    /\ stream_input = << >>
    /\ nmsgs = 0
    /\ nfetch = 0
    /\ GatewayStarted
    /\ HostStarted

frame_vars == << full_response_segment, tool_call_detected, llm_output_started,
                 stream_state, tool_calls, call_idx, attempt, tool_results_for_history,
                 frame_start, gw >>
call_vars == << depth, max_depth, user_message, nstreams, dispatched, stream_input >>
session_vars == << host_model, initialized, tools, nfetch >>
gateway_vars == << tools_cache, server_tools_mapping, access, batch, backend_calls >>
host_vars == << active_connections, socket >>

\* The locals of a frame that has not run yet.
FreshFrame ==
    /\ full_response_segment' = << >>
    /\ tool_call_detected' = FALSE
    /\ llm_output_started' = FALSE
    /\ tool_calls' = << >>
    /\ call_idx' = 0
    /\ attempt' = 0
    /\ tool_results_for_history' = << >>
    /\ gw' = << >>

\* The fields initialize() reads and writes.
Session ==
    [ initialized |-> initialized, tools |-> tools, messages |-> messages,
      nfetch |-> nfetch ]

initialize_unguarded(s, fetched) ==
    LET tls == IF fetched THEN Catalog ELSE s.tools
    IN  [ initialized |-> TRUE,
          tools       |-> tls,
          messages    |-> << Msg("system", FALSE, create_system_prompt(tls)) >>,
          nfetch      |-> s.nfetch + 1 ]

\* initialize(), lines 112-119: only a session that is not initialized
\* fetches; fetch_tools() (lines 121-138) keeps the catalog on a 200 answer
\* (fetched) and leaves self.tools as it is otherwise.
initialize(s, fetched) ==
    IF s.initialized THEN s
    ELSE LET tls == IF fetched THEN Catalog ELSE s.tools
         IN  [ initialized |-> TRUE,
               tools       |-> tls,
               messages    |-> << Msg("system", FALSE, create_system_prompt(tls)) >>,
               nfetch      |-> s.nfetch + 1 ]

\* __aenter__ (lines 104-106), entered by the front end's `async with`.
Initialize ==
    /\ pc = "new"
    /\ \E fetched \in BOOLEAN :
          LET s == initialize(Session, fetched)
          IN  /\ initialized' = s.initialized
              /\ tools' = s.tools
              /\ messages' = s.messages
              /\ nfetch' = s.nfetch
    /\ pc' = "idle"
    /\ UNCHANGED << host_model, gateway_vars, host_vars, call_vars, frame_vars, events, nfrag,
                    nmsgs >>

ReceiveUserMessageWhileRunning ==
    /\ pc \in { "idle", "stream", "gateway" }
    /\ nmsgs < MaxUserMessages
    /\ \E m \in UserMessages, n \in 0..MaxDepth :
          /\ user_message' = m
          /\ max_depth' = n
    /\ nmsgs' = nmsgs + 1
    /\ depth' = 0
    /\ nstreams' = 0
    /\ dispatched' = {}
    /\ events' = << >>
    /\ frame_start' = 0
    /\ FreshFrame
    /\ stream_state' = "none"
    /\ pc' = "entry"
    /\ UNCHANGED << session_vars, gateway_vars, host_vars, messages, stream_input, nfrag >>

\* websocket_endpoint, lines 92-98: a user message is read and
\* interactive_stream_chat(user_message) is called for it.
ReceiveUserMessage ==
    /\ pc = "idle"
    /\ nmsgs < MaxUserMessages
    /\ \E m \in UserMessages, n \in 0..MaxDepth :
          /\ user_message' = m
          /\ max_depth' = n
    /\ nmsgs' = nmsgs + 1
    /\ depth' = 0
    /\ nstreams' = 0
    /\ dispatched' = {}
    /\ events' = << >>
    /\ frame_start' = 0
    /\ FreshFrame
    /\ stream_state' = "none"
    /\ pc' = "entry"
    /\ UNCHANGED << session_vars, gateway_vars, host_vars, messages, stream_input, nfrag >>

\* websocket_endpoint, lines 103-104: the generator is exhausted.
SendStreamEnd ==
    /\ pc = "exhausted"
    /\ events' = Append(events, Event("STREAM_END", << >>))
    /\ pc' = "idle"
    /\ UNCHANGED << session_vars, gateway_vars, host_vars, messages, call_vars, frame_vars, nfrag, nmsgs >>

-----------------------------------------------------------------------------
(* interactive_stream_chat *)

MaxRetriesPlusOne == 3 + 1
max_retries == 3

EnterAtEveryDepth(limit_reached) ==
    /\ pc = "entry"
    /\ FreshFrame
    /\ frame_start' = Len(events)
    /\ IF limit_reached
       THEN /\ events' = Append(events, Event("SYSTEM", MaxDepthText))
            /\ stream_state' = "none"
            /\ pc' = "exhausted"
            /\ UNCHANGED << initialized, tools, nfetch, messages, nstreams,
                            stream_input >>
       ELSE /\ \E fetched \in BOOLEAN :
                  LET s == initialize(Session, fetched)
                  IN  /\ initialized' = s.initialized
                      /\ tools' = s.tools
                      /\ nfetch' = s.nfetch
                      /\ messages' = IF user_message # << >>
                                      THEN add_message(host_model, s.messages, "user",
                                                       user_message, TRUE)
                                      ELSE s.messages
            /\ nstreams' = nstreams + 1
            /\ stream_input' = messages'
            /\ stream_state' = "open"
            /\ pc' = "stream"
            /\ UNCHANGED events
    /\ UNCHANGED << host_model, gateway_vars, host_vars, depth, max_depth, user_message,
                    dispatched, nfrag, nmsgs >>

\* Lines 363-376: a frame is entered; limit_reached is the depth check.  A
\* frame that goes on initializes the session if it is not (lines 367-368),
\* appends the user message (top-level call only) and opens its provider
\* stream on the History.
EnterAt(limit_reached) ==
    /\ pc = "entry"
    /\ FreshFrame
    /\ frame_start' = Len(events)
    /\ IF limit_reached
       THEN /\ events' = Append(events, Event("SYSTEM", MaxDepthText))
            /\ stream_state' = "none"
            /\ pc' = "exhausted"
            /\ UNCHANGED << initialized, tools, nfetch, messages, nstreams,
                            stream_input >>
       ELSE /\ \E fetched \in BOOLEAN :
                  LET s == initialize(Session, fetched)
                  IN  /\ initialized' = s.initialized
                      /\ tools' = s.tools
                      /\ nfetch' = s.nfetch
                      /\ messages' = IF user_message # << >> /\ depth = 0
                                      THEN add_message(host_model, s.messages, "user",
                                                       user_message, TRUE)
                                      ELSE s.messages
            /\ nstreams' = nstreams + 1
            /\ stream_input' = messages'
            /\ stream_state' = "open"
            /\ pc' = "stream"
            /\ UNCHANGED events
    /\ UNCHANGED << host_model, gateway_vars, host_vars, depth, max_depth, user_message,
                    dispatched, nfrag, nmsgs >>

EnterOffByOne == EnterAt(depth > max_depth)

\* Line 363: if depth >= max_depth
Enter == EnterAt(depth >= max_depth)

\* Lines 420-425 and 496-498: extraction and what it leads to.
Extract(buf, evs, on_failure) ==
    \E lib \in RepairModes :
       LET calls == parse_tool_calls(buf, lib)
       IN  IF calls # << >>
           THEN /\ events' = Append(evs, Event("SYSTEM", ExecutingText))
                /\ tool_calls' = calls
                /\ pc' = "dispatch"
           ELSE /\ events' = Append(evs, Event("ERROR", ParseFailText))
                /\ tool_calls' = << >>
                /\ pc' = on_failure

AfterStreamAlwaysParse(buf, det, evs) ==
    /\ messages' = IF buf # << >>
                   THEN add_message(host_model, messages, "assistant", buf, ~det)
                   ELSE messages
    /\ Extract(buf, evs, "exhausted")

AfterStreamRetry(buf, det, evs) ==
    /\ messages' = IF buf # << >>
                   THEN add_message(host_model, messages, "assistant", buf, ~det)
                   ELSE messages
    /\ IF det
       THEN Extract(buf, evs, "entry")
       ELSE /\ events' = evs
            /\ tool_calls' = << >>
            /\ pc' = "exhausted"

\* Lines 413-425 and 496-500: what follows the stream loop, for the buffer
\* buf, the detection flag det and the events evs emitted so far.
AfterStream(buf, det, evs) ==
    /\ messages' = IF buf # << >>
                   THEN add_message(host_model, messages, "assistant", buf, ~det)
                   ELSE messages
    /\ IF det
       THEN Extract(buf, evs, "exhausted")
       ELSE /\ events' = evs
            /\ tool_calls' = << >>
            /\ pc' = "exhausted"

NarrationEventWholeBuffer(chunk, buf) == Event("LLM", buf)

\* Line 385: yield f"[LLM]{chunk}"
NarrationEvent(chunk, buf) == Event("LLM", chunk)

DetectionEventsRawFirst(buf) ==
    (IF RawToolCallBlock(buf) # << >>
     THEN << Event("RAW_TOOL_CALL", RawToolCallBlock(buf)) >>
     ELSE << >>)
    \o << Event("SYSTEM", DetectedText) >>

\* Lines 390-403: the events of the detection.
DetectionEvents(buf) ==
    << Event("SYSTEM", DetectedText) >>
    \o (IF RawToolCallBlock(buf) # << >>
        THEN << Event("RAW_TOOL_CALL", RawToolCallBlock(buf)) >>
        ELSE << >>)

MarkerSeenNoBreak(buf) ==
    /\ tool_call_detected' = TRUE
    /\ events' = IF tool_call_detected THEN events
                 ELSE events \o DetectionEvents(buf)
    /\ UNCHANGED << llm_output_started, stream_state, messages, tool_calls, pc >>

MarkerSeenAfterYield(buf) ==
    /\ tool_call_detected' = TRUE
    /\ stream_state' = "abandoned"
    /\ UNCHANGED llm_output_started
    /\ AfterStream(buf, TRUE,
                   Append(events,
                          Event("LLM", Drop(buf, Len(full_response_segment) + 1)))
                   \o DetectionEvents(buf))

\* Lines 387-405: the buffer holds a closing marker for the first time; the
\* detection is announced and the loop is left.
MarkerSeen(buf) ==
    /\ tool_call_detected' = TRUE
    /\ stream_state' = "abandoned"
    /\ UNCHANGED llm_output_started
    /\ AfterStream(buf, TRUE, events \o DetectionEvents(buf))

\* Lines 380-405: one pass of the loop body, for the fragment chunk.
Consume(chunk) ==
    LET buf == full_response_segment \o chunk
    IN  /\ nfrag' = nfrag + 1
        /\ IF chunk = << >>
           THEN UNCHANGED << full_response_segment, tool_call_detected,
                             llm_output_started, stream_state, events,
                             messages, tool_calls, pc >>
           ELSE /\ full_response_segment' = buf
                /\ IF ~HasCloseMarker(buf)
                   THEN /\ events' = Append(events, NarrationEvent(chunk, buf))
                        /\ llm_output_started' = TRUE
                        /\ UNCHANGED << tool_call_detected, stream_state,
                                        messages, tool_calls, pc >>
                   ELSE MarkerSeen(buf)
        /\ UNCHANGED << session_vars, gateway_vars, host_vars, call_vars, call_idx, attempt,
                        tool_results_for_history, frame_start, gw, nmsgs >>

\* Lines 380-405: the provider delivers one fragment.
ProviderYields ==
    /\ pc = "stream"
    /\ nfrag < MaxFragments
    /\ \E chunk \in Fragments : Consume(chunk)

\* Line 380: the provider stream is exhausted.
ProviderEnds ==
    /\ pc = "stream"
    /\ AfterStream(full_response_segment, tool_call_detected, events)
    /\ stream_state' = "exhausted"
    /\ UNCHANGED << session_vars, gateway_vars, host_vars, call_vars, full_response_segment,
                    tool_call_detected, llm_output_started, nfrag, call_idx,
                    attempt, tool_results_for_history, frame_start, gw, nmsgs >>

ProviderRaisesUncaught ==
    /\ pc = "stream"
    /\ \E e \in StreamFaults :
          events' = Append(events, Event("ERROR", << " An internal error occurred: " >> \o e))
    /\ stream_state' = "raised"
    /\ pc' = "idle"
    /\ UNCHANGED << session_vars, gateway_vars, host_vars, call_vars, full_response_segment, messages,
                    tool_call_detected, llm_output_started, tool_calls, call_idx,
                    attempt, tool_results_for_history, frame_start, gw, nfrag,
                    nmsgs >>

ProviderRaisesKeepsPartial ==
    /\ pc = "stream"
    /\ \E e \in StreamFaults :
          /\ events' = Append(events, Event("ERROR", StreamFaultText(e)))
          /\ messages' = add_message(host_model,
                              IF full_response_segment # << >>
                              THEN add_message(host_model, messages, "assistant",
                                               full_response_segment, TRUE)
                              ELSE messages,
                              "assistant", StreamFaultText(e), FALSE)
    /\ stream_state' = "raised"
    /\ pc' = "exhausted"
    /\ UNCHANGED << session_vars, gateway_vars, host_vars, call_vars, full_response_segment,
                    tool_call_detected, llm_output_started, tool_calls, call_idx,
                    attempt, tool_results_for_history, frame_start, gw, nfrag,
                    nmsgs >>

\* Lines 407-411: the provider stream raises.
ProviderRaises ==
    /\ pc = "stream"
    /\ \E e \in StreamFaults :
          /\ events' = Append(events, Event("ERROR", StreamFaultText(e)))
          /\ messages' = add_message(host_model, messages, "assistant",
                                     StreamFaultText(e), FALSE)
    /\ stream_state' = "raised"
    /\ pc' = "exhausted"
    /\ UNCHANGED << session_vars, gateway_vars, host_vars, call_vars, full_response_segment,
                    tool_call_detected, llm_output_started, tool_calls, call_idx,
                    attempt, tool_results_for_history, frame_start, gw, nfrag,
                    nmsgs >>

-----------------------------------------------------------------------------
(* The tool dispatcher: execute_tool, execute_batch_tools and the dispatch *)
(* block of interactive_stream_chat.                                       *)

ToolCallEvent(call) ==
    Event("TOOL_CALL", ToolCallPayload(call.tool_name, call.arguments))
ToolResultEventNumbered(call, status, data) ==
    Event("TOOL_RESULT",
          ToolResultPayload(call.tool_name, status, << ToString(depth) >> \o data))
ToolResultEvent(call, status, data) ==
    Event("TOOL_RESULT", ToolResultPayload(call.tool_name, status, data))

\* Lines 149-153 and 186-190: the JSON body built for one call.
RequestBody(call) == [ tool |-> call.tool_name, input |-> call.arguments ]

\* Lines 147-153: POST /execute for one call.
ExecuteRequest(call, nev) ==
    GwEntry("request", "execute", << RequestBody(call) >>, NoAnswer, nev)

BatchRequestFirstOnly(calls, nev) ==
    GwEntry("request", "batch-execute", << RequestBody(calls[1]) >>, NoAnswer, nev)

\* Lines 184-193: POST /batch-execute with the bodies of all calls, in order.
BatchRequest(calls, nev) ==
    GwEntry("request", "batch-execute",
            [ i \in 1..Len(calls) |-> RequestBody(calls[i]) ], NoAnswer, nev)

FinishSameDepth(evs, results) ==
    /\ events' = evs \o << Event("LLM", SeparatorText), Event("SYSTEM", FinishedText) >>
    /\ messages' = add_message(host_model, messages, "assistant",
                               tool_result_content(results), FALSE)
    /\ tool_results_for_history' = results
    /\ depth' = depth
    /\ pc' = "entry"

FinishNoTool(evs, results) ==
    /\ events' = evs \o << Event("LLM", SeparatorText), Event("SYSTEM", FinishedText) >>
    /\ messages' = add_message(host_model, messages, "assistant",
                               tool_result_content(results), TRUE)
    /\ tool_results_for_history' = results
    /\ depth' = depth + 1
    /\ pc' = "entry"

\* Lines 484-495: the separator, the outcome summary, the continuation marker
\* and the recursive call.
Finish(evs, results) ==
    /\ events' = evs \o << Event("LLM", SeparatorText), Event("SYSTEM", FinishedText) >>
    /\ messages' = add_message(host_model, messages, "assistant",
                               tool_result_content(results), FALSE)
    /\ tool_results_for_history' = results
    /\ depth' = depth + 1
    /\ pc' = "entry"

DispatchRequestFirst ==
    /\ pc = "dispatch"
    /\ tool_results_for_history' = << >>
    /\ IF Len(tool_calls) > 1
       THEN /\ gw' = << BatchRequest(tool_calls, Len(events)) >>
            /\ UNCHANGED << events, call_idx, attempt >>
       ELSE /\ gw' = << ExecuteRequest(tool_calls[1], Len(events)) >>
            /\ events' = Append(events, ToolCallEvent(tool_calls[1]))
            /\ call_idx' = 1
            /\ attempt' = 0
    /\ pc' = "gateway"
    /\ UNCHANGED << session_vars, gateway_vars, host_vars, messages, call_vars, full_response_segment,
                    tool_call_detected, llm_output_started, stream_state, nfrag,
                    tool_calls, frame_start, nmsgs >>

\* Lines 425-428 and 461-467: the dispatch starts, with the batch request for
\* more than one call and with the first call's TOOL_CALL and request otherwise.
Dispatch ==
    /\ pc = "dispatch"
    /\ tool_results_for_history' = << >>
    /\ IF Len(tool_calls) > 1
       THEN /\ gw' = << BatchRequest(tool_calls, Len(events)) >>
            /\ UNCHANGED << events, call_idx, attempt >>
       ELSE /\ events' = Append(events, ToolCallEvent(tool_calls[1]))
            /\ gw' = << ExecuteRequest(tool_calls[1], Len(events')) >>
            /\ call_idx' = 1
            /\ attempt' = 0
    /\ pc' = "gateway"
    /\ UNCHANGED << session_vars, gateway_vars, host_vars, messages, call_vars, full_response_segment,
                    tool_call_detected, llm_output_started, stream_state, nfrag,
                    tool_calls, frame_start, nmsgs >>

\* Lines 163-166 and 174: the error a failed last attempt returns.
FailureDict(a) ==
    IF a.kind = "http_error"
    THEN ErrorDict(<< "Tool execution failed with status ", ToString(a.status), ": " >>
                   \o a.text)
    ELSE ErrorDict(a.text)

\* A completed dispatch of the single-call path: the request, the answers
\* the Gateway gave to its attempts (the last attempt + 1 responses of the
\* log), the TOOL_CALL and TOOL_RESULT events and the frame's outcome list.
Responses(log) == SelectSeq(log, LAMBDA e : e.kind = "response")
SingleDispatch(call, log, call_event, result_event, outcomes) ==
    [ call |-> call,
      answers |-> { Responses(log)[k].answer :
                       k \in (Len(Responses(log)) - attempt)..Len(Responses(log)) },
      tool_call |-> call_event, tool_result |-> result_event,
      outcomes |-> outcomes ]

\* Lines 468-482 and the loop of line 461: execute_tool returned result for
\* the call at call_idx; log is the Gateway log so far.
ExecuteReturned(result, log) ==
    LET call     == tool_calls[call_idx]
        is_error == result.has_error
        outcome  == IF is_error THEN Outcome(call, "error=", result.error)
                    ELSE Outcome(call, "result=", dumps_dict(result))
        event    == IF is_error THEN ToolResultEvent(call, "error", result.error)
                    ELSE ToolResultEvent(call, "success", dumps_dict(result))
        results  == Append(tool_results_for_history, outcome)
        evs      == Append(events, event)
        done     == SingleDispatch(call, log, events[Len(events)], event, results)
    IN  /\ dispatched' = IF Cardinality(done.answers) = 1
                         THEN dispatched \cup { done } ELSE dispatched
        /\ IF call_idx < Len(tool_calls)
           THEN /\ events' = Append(evs, ToolCallEvent(tool_calls[call_idx + 1]))
                /\ gw' = Append(log, ExecuteRequest(tool_calls[call_idx + 1], Len(events')))
                /\ call_idx' = call_idx + 1
                /\ attempt' = 0
                /\ tool_results_for_history' = results
                /\ pc' = "gateway"
                /\ UNCHANGED << messages, depth >>
           ELSE /\ Finish(evs, results)
                /\ gw' = log
                /\ UNCHANGED << call_idx, attempt >>

\* execute_tool, lines 145-174: the answer to one attempt.
ExecuteAnswered(a) ==
    LET log == Append(gw, GwEntry("response", "execute", << >>, a, Len(events)))
    IN  IF a.kind = "ok"
        THEN ExecuteReturned(a.result, log)
        ELSE IF attempt < max_retries - 1
             THEN /\ gw' = Append(log, GwEntry("sleep", "execute", << >>, NoAnswer,
                                               Len(events)))
                  /\ pc' = "sleep"
                  /\ UNCHANGED << events, messages, depth, call_idx, attempt,
                                  tool_results_for_history, dispatched >>
             ELSE ExecuteReturned(FailureDict(a), log)

\* execute_batch_tools, lines 195-202: what the batch call returns.
batch_results(a) ==
    IF a.kind = "ok" THEN a.results
    ELSE IF a.kind = "http_error"
         THEN << BatchItem(FALSE, FALSE, EmptyDict, TRUE,
                           << "Batch execution failed: " >> \o a.text) >>
         ELSE << BatchItem(FALSE, FALSE, EmptyDict, TRUE, a.text) >>

\* Lines 433-459 for one returned item: result.get("success", True) decides.
ItemSuccess(item) == IF item.has_success THEN item.success ELSE TRUE
ItemError(item)   == IF item.has_error THEN item.error ELSE << "Unknown error" >>

BatchEventsCallsFirst(items, calls, i) ==
    LET n == Min(Len(items), Len(calls))
    IN  [ k \in 1..n |-> ToolCallEvent(calls[k]) ]
        \o [ k \in 1..n |->
                IF ItemSuccess(items[k])
                THEN ToolResultEvent(calls[k], "success", dumps_dict(items[k].result))
                ELSE ToolResultEvent(calls[k], "error", ItemError(items[k])) ]

\* Lines 429-459: the events of the returned items, in order.
RECURSIVE BatchEvents(_, _, _)
BatchEvents(items, calls, i) ==
    IF i > Len(items) THEN << >>
    ELSE (IF i <= Len(calls)
          THEN << ToolCallEvent(calls[i]),
                  IF ItemSuccess(items[i])
                  THEN ToolResultEvent(calls[i], "success", dumps_dict(items[i].result))
                  ELSE ToolResultEvent(calls[i], "error", ItemError(items[i])) >>
          ELSE << >>)
         \o BatchEvents(items, calls, i + 1)

\* Lines 429-459: the outcomes accumulated for History, in order.
RECURSIVE BatchOutcomes(_, _, _)
BatchOutcomes(items, calls, i) ==
    IF i > Len(items) THEN << >>
    ELSE (IF i <= Len(calls)
          THEN << IF ItemSuccess(items[i])
                  THEN Outcome(calls[i], "result=", dumps_dict(items[i].result))
                  ELSE Outcome(calls[i], "error=", ItemError(items[i])) >>
          ELSE << >>)
         \o BatchOutcomes(items, calls, i + 1)

\* Lines 428-459: the batch answer arrives and its items are reported.
BatchAnswered(a) ==
    /\ gw' = Append(gw, GwEntry("response", "batch-execute", << >>, a, Len(events)))
    /\ Finish(events \o BatchEvents(batch_results(a), tool_calls, 1),
              BatchOutcomes(batch_results(a), tool_calls, 1))
    /\ UNCHANGED << call_idx, attempt, dispatched >>

\* The Gateway answers the pending HTTP request.
GatewayAnswers ==
    /\ pc = "gateway"
    /\ IF gw[1].op = "batch-execute"
       THEN \E a \in BatchAnswers(Len(tool_calls)) : BatchAnswered(a)
       ELSE \E a \in ExecuteAnswers : ExecuteAnswered(a)
    /\ UNCHANGED << session_vars, gateway_vars, host_vars, max_depth, user_message, nstreams,
                    stream_input, full_response_segment, tool_call_detected, llm_output_started,
                    stream_state, nfrag, tool_calls, frame_start, nmsgs >>

\* Lines 160-162 and 171-172: asyncio.sleep(1) is over, the next attempt starts.
SleepEnds ==
    /\ pc = "sleep"
    /\ attempt' = attempt + 1
    /\ gw' = Append(gw, ExecuteRequest(tool_calls[call_idx], Len(events)))
    /\ pc' = "gateway"
    /\ UNCHANGED << session_vars, gateway_vars, host_vars, messages, call_vars, full_response_segment,
                    tool_call_detected, llm_output_started, stream_state, nfrag,
                    tool_calls, call_idx, tool_results_for_history, events,
                    frame_start, nmsgs >>

-----------------------------------------------------------------------------
(* Specifications. *)

Next ==
    \/ Initialize
    \/ ReceiveUserMessage
    \/ Enter
    \/ ProviderYields
    \/ ProviderEnds
    \/ ProviderRaises
    \/ Dispatch
    \/ GatewayAnswers
    \/ SleepEnds
    \/ SendStreamEnd

\* A session driven by the front end.
Spec == Init /\ [][Next]_vars

\* The dispatch block entered with a given request list: the state of a
\* frame suspended at line 424, for every list of 1..MaxCalls requests.  The
\* extractor yields at most one request, so lists of several requests reach
\* the block only this way.  The session has read its last user message and
\* the provider has one more fragment to deliver.  The buffer is the response
\* that names the requests, one envelope each, and History holds it (lines
\* 413-416).
RECURSIVE EnvelopesOf(_)
EnvelopesOf(calls) ==
    IF calls = << >> THEN << >>
    ELSE Envelope(Head(calls).tool_name[1],
                  IF Head(calls).arguments = << ValueA >> THEN JsonA ELSE JsonB)
         \o EnvelopesOf(Tail(calls))

DispatchInit ==
    /\ host_model \in HostModels
    /\ initialized = TRUE
    /\ tools = Catalog
    /\ user_message \in UserMessages
    /\ tool_calls \in UNION { [ 1..n -> Requests ] : n \in 1..MaxCalls }
    /\ full_response_segment = EnvelopesOf(tool_calls)
    /\ stream_input = add_message(host_model,
                          << Msg("system", FALSE, create_system_prompt(Catalog)) >>,
                          "user", user_message, TRUE)
    /\ messages = add_message(host_model, stream_input, "assistant",
                              full_response_segment, FALSE)
    /\ pc = "dispatch"
    /\ depth = 0
    /\ max_depth \in 1..MaxDepth
    /\ tool_call_detected = TRUE
    /\ llm_output_started = FALSE
    /\ stream_state = "abandoned"
    /\ nfrag = MaxFragments - 1
    /\ call_idx = 0
    /\ attempt = 0
    /\ tool_results_for_history = << >>
    /\ events = << Event("SYSTEM", DetectedText), Event("SYSTEM", ExecutingText) >>
    /\ frame_start = 0
    /\ gw = << >>
    /\ nstreams = 1
    /\ dispatched = {}
    /\ nmsgs = MaxUserMessages
    /\ nfetch = 1
    /\ GatewayStarted
    /\ HostStarted

DispatchNext ==
    \/ Enter
    \/ ProviderYields
    \/ ProviderEnds
    \/ ProviderRaises
    \/ Dispatch
    \/ GatewayAnswers
    \/ SleepEnds
    \/ SendStreamEnd

DispatchSpec == DispatchInit /\ [][DispatchNext]_vars


\* The asyncio task of a session runs whenever what it awaits is there: a
\* step of the running call is taken as long as one is possible.  Streams
\* are finite and every Gateway call returns.
TurnStep ==
    \/ Enter
    \/ ProviderYields
    \/ ProviderEnds
    \/ ProviderRaises
    \/ Dispatch
    \/ GatewayAnswers
    \/ SleepEnds

FairSpec == Spec /\ WF_vars(TurnStep)

\* A session whose provider delivers, to every top-level frame, the
\* generation "narration, then one read_file envelope", cut into fragments
\* at any of the cut points; a frame of the recursion gets an empty stream.
Generation == << Narration >> \o Envelope("read_file", JsonA)

\* Where the provider may end a fragment: after the narration, inside the
\* envelope, and inside the closing marker.
CutPoints == { 1, 5, Len(Generation) - 1 }

\* The fragments that may come next when buf has been delivered.
NextFragments(buf) ==
    { SubSeq(Generation, Len(buf) + 1, k) :
         k \in { c \in CutPoints \cup { Len(Generation) } : c > Len(buf) } }

GenerationYields ==
    /\ pc = "stream"
    /\ depth = 0
    /\ \E chunk \in NextFragments(full_response_segment) : Consume(chunk)

GenerationEnds ==
    /\ depth > 0
    /\ ProviderEnds

GenerationNext ==
    \/ Initialize
    \/ ReceiveUserMessage
    \/ Enter
    \/ GenerationYields
    \/ GenerationEnds
    \/ Dispatch
    \/ GatewayAnswers
    \/ SleepEnds
    \/ SendStreamEnd

GenerationSpec == Init /\ [][GenerationNext]_vars

\* A frame about to call parse_tool_calls (line 420) on a response text.
\* The texts: an optional narration, an optional opening tag, a tool_name
\* element (absent, well formed, padded with white space, or unclosed), an
\* arguments element (absent, or the opening tag followed by a raw text and
\* an optional closing tag), an optional closing marker (whole, or cut in
\* its middle) and an optional second envelope, with up to MaxPad white
\* space tokens between the parts.
MaxPad == 1
Pad(n) == [ i \in 1..n |-> " " ]

NameElements ==
    { << >>, NameOpen \o << "read_file" >> }
    \cup { NameOpen \o Pad(p) \o << "read_file" >> \o Pad(p) \o NameClose :
              p \in 0..MaxPad }

ArgumentTexts == { << >>, << JsonA >>, << JsonB >>, << Garbage >>, << JsonA, JsonB >> }

ArgumentElements ==
    { << >> }
    \cup { ArgsOpen \o Pad(p) \o t \o c :
              p \in 0..MaxPad, t \in ArgumentTexts, c \in { << >>, ArgsClose } }

Texts ==
    { lead \o open \o Pad(p) \o n \o Pad(p) \o a \o Pad(p) \o close \o trail :
         lead \in { << >>, << Narration >> }, open \in { << >>, OpenTag },
         p \in 0..MaxPad, n \in NameElements, a \in ArgumentElements,
         close \in { << >>, CloseTag, << CloseTag[1] >> },
         trail \in { << >>, Envelope("run_command", JsonB) } }

ExtractorInit ==
    /\ host_model \in HostModels
    /\ initialized = TRUE
    /\ tools = Catalog
    /\ messages = << >>
    /\ pc = "parse"
    /\ depth = 0
    /\ max_depth = MaxDepth
    /\ user_message = << >>
    /\ full_response_segment \in Texts
    /\ tool_call_detected = TRUE
    /\ llm_output_started = FALSE
    /\ stream_state = "abandoned"
    /\ nfrag = 0
    /\ tool_calls = << >>
    /\ call_idx = 0
    /\ attempt = 0
    /\ tool_results_for_history = << >>
    /\ events = << >>
    /\ frame_start = 0
    /\ gw = << >>
    /\ nstreams = 1
    /\ dispatched = {}
    /\ stream_input = << >>
    /\ nmsgs = 1
    /\ nfetch = 1
    /\ GatewayStarted
    /\ HostStarted

\* Line 420: tool_calls = await self.parse_tool_calls(full_response_segment)
ParseToolCalls ==
    /\ pc = "parse"
    /\ \E lib \in RepairModes :
          tool_calls' = parse_tool_calls(full_response_segment, lib)
    /\ pc' = "parsed"
    /\ UNCHANGED << session_vars, gateway_vars, host_vars, messages, call_vars, full_response_segment,
                    tool_call_detected, llm_output_started, stream_state, nfrag,
                    call_idx, attempt, tool_results_for_history, events,
                    frame_start, gw, nmsgs >>

ExtractorNext == ParseToolCalls

ExtractorSpec == ExtractorInit /\ [][ExtractorNext]_vars

\* The orchestrator's variables, which the Gateway process does not touch.
orchestrator_vars ==
    << session_vars, messages, pc, call_vars, frame_vars, nfrag, events, nmsgs >>

\* get_tools, lines 101-103: a call starts; with tools_cache None it
\* suspends in the fetch, otherwise it returns the globals at once.
GetTools(i) ==
    /\ access[i].pc = "idle"
    /\ access' = [ access EXCEPT ![i] =
                     IF tools_cache = << >> THEN Fetching
                     ELSE Returned(tools_cache[1], server_tools_mapping) ]
    /\ UNCHANGED << tools_cache, server_tools_mapping, batch, backend_calls,
                    orchestrator_vars, host_vars >>

\* get_tools, lines 104-105: the fetch returns, both globals are assigned
\* and returned; each server answered or failed while the call was
\* suspended.
FetchReturns(i) ==
    /\ access[i].pc = "fetching"
    /\ \E up \in SUBSET { Servers[k] : k \in 1..Len(Servers) } :
          LET fetched == fetch_tools_from_servers(up)
          IN  /\ tools_cache' = << fetched.all_tools >>
              /\ server_tools_mapping' = fetched.server_tools_map
              /\ access' = [ access EXCEPT ![i] =
                               Returned(fetched.all_tools, fetched.server_tools_map) ]
              /\ backend_calls' = Append(backend_calls, ListCall(fetched.all_tools))
    /\ UNCHANGED << batch, orchestrator_vars, host_vars >>

GatewayNext ==
    \/ \E i \in 1..MaxAccesses : GetTools(i)
    \/ \E i \in 1..MaxAccesses : FetchReturns(i)

\* The Gateway process serving get_tools calls of its endpoints.
GatewaySpec == Init /\ [][GatewayNext]_vars

\* api_batch_execute_tools, lines 180-189: the request list arrives; an
\* empty list returns at once.
ApiBatchExecuteTools(requests) ==
    /\ batch.pc = "idle"
    /\ batch' = [ pc |-> IF requests = << >> THEN "returned" ELSE "loop",
                  requests |-> requests, results |-> << >>, slot |-> 0 ]
    /\ UNCHANGED << tools_cache, server_tools_mapping, access, backend_calls,
                    orchestrator_vars, host_vars >>

\* api_execute_tool, line 139: the loop's next request calls get_tools,
\* which suspends in the fetch when tools_cache is None.
ExecuteGetsTools(i) ==
    /\ batch.pc = "loop"
    /\ access[i].pc = "idle"
    /\ access' = [ access EXCEPT ![i] =
                     IF tools_cache = << >> THEN Fetching
                     ELSE Returned(tools_cache[1], server_tools_mapping) ]
    /\ batch' = [ batch EXCEPT !.pc = "get_tools", !.slot = i ]
    /\ UNCHANGED << tools_cache, server_tools_mapping, backend_calls,
                    orchestrator_vars, host_vars >>

\* api_execute_tool, lines 141-176, and lines 191-203 of the loop: with the
\* mapping get_tools returned the request is rejected or posted to its
\* server, and the loop appends the item of what was returned or of the
\* HTTPException raised; any other exception leaves the loop.
ExecuteReturns ==
    /\ batch.pc = "get_tools"
    /\ access[batch.slot].pc = "returned"
    /\ \E answer \in BackendAnswers :
          LET tool    == batch.requests[Len(batch.results) + 1]
              mapping == access[batch.slot].mapping
              out     == api_execute_tool(tool, mapping, answer)
              item    == IF out.raised = ""
                         THEN ResultItem(tool, TRUE, out.result, "")
                         ELSE ResultItem(tool, FALSE, EmptyDict, out.detail)
              results == Append(batch.results, item)
          IN  /\ batch' =
                    IF out.raised \in { "", "HTTPException" }
                    THEN [ batch EXCEPT
                              !.results = results,
                              !.slot = 0,
                              !.pc = IF Len(results) = Len(batch.requests)
                                     THEN "returned" ELSE "loop" ]
                    ELSE [ batch EXCEPT !.slot = 0, !.pc = "failed" ]
              /\ backend_calls' =
                    IF out.status_code = 404 THEN backend_calls
                    ELSE Append(backend_calls,
                                ExecuteCall((CHOOSE pair \in mapping : pair[1] = tool)[2],
                                            tool, answer.kind))
    /\ UNCHANGED << tools_cache, server_tools_mapping, access,
                    orchestrator_vars, host_vars >>

BatchNext ==
    \/ GatewayNext
    \/ \E requests \in UNION { [ 1..n -> ToolNames ] : n \in 0..MaxRequests } :
          ApiBatchExecuteTools(requests)
    \/ \E i \in 1..MaxAccesses : ExecuteGetsTools(i)
    \/ ExecuteReturns

\* The Gateway process serving get_tools calls and one /batch-execute.
BatchSpec == Init /\ [][BatchNext]_vars

\* What the front end's steps leave alone.
single_session_vars == << orchestrator_vars, gateway_vars >>

\* ConnectionManager.send_personal_message(text, connection_id), lines
\* 30-42, called by the endpoint of websocket w: the text goes to the
\* websocket the manager holds for the id; a held websocket that is no
\* longer connected is removed instead.
send_personal_message(sockets, conns, w, text) ==
    LET id     == sockets[w].connection_id
        target == conns[id]
    IN  IF target = 0 THEN [ sockets |-> sockets, conns |-> conns ]
        ELSE IF sockets[target].pc # "closed"
             THEN [ sockets |-> [ sockets EXCEPT ![target].received =
                                     Append(@, << w, text >>) ],
                    conns   |-> conns ]
             ELSE [ sockets |-> sockets, conns |-> [ conns EXCEPT ![id] = 0 ] ]

\* websocket_endpoint, lines 64-88: a client connects with a connection id;
\* manager.connect stores the websocket under it and the endpoint enters
\* its own LLMMCPClient, whose History starts with the system prompt.
Connect(w, id) ==
    /\ socket[w].pc = "new"
    /\ active_connections' = [ active_connections EXCEPT ![id] = w ]
    /\ socket' = [ socket EXCEPT ![w] =
                     [ pc |-> "open", connection_id |-> id,
                       messages |-> << << w, "system" >> >>, received |-> << >>,
                       nsent |-> 0, turns |-> 0 ] ]
    /\ UNCHANGED single_session_vars

\* Lines 92-97: the endpoint reads a user message and starts the turn,
\* which appends the message to the History of its own client.
SocketReceives(w) ==
    /\ socket[w].pc = "open"
    /\ socket[w].turns < MaxTurns
    /\ socket' = [ socket EXCEPT ![w].pc = "turn", ![w].nsent = 0,
                                 ![w].turns = @ + 1,
                                 ![w].messages = Append(@, << w, "user" >>) ]
    /\ UNCHANGED << active_connections, single_session_vars >>

\* Lines 97-101: the turn yields a chunk (recorded in its own History) and
\* the endpoint sends it.
SocketSendsChunk(w) ==
    /\ socket[w].pc = "turn"
    /\ socket[w].nsent < MaxChunks
    /\ LET mine == [ socket EXCEPT ![w].nsent = @ + 1,
                                   ![w].messages = Append(@, << w, "assistant" >>) ]
           r    == send_personal_message(mine, active_connections, w, "chunk")
       IN  /\ socket' = r.sockets
           /\ active_connections' = r.conns
    /\ UNCHANGED single_session_vars

\* Lines 103-104: the generator is exhausted, [STREAM_END] is sent.
SocketSendsStreamEnd(w) ==
    /\ socket[w].pc = "turn"
    /\ LET mine == [ socket EXCEPT ![w].pc = "open" ]
           r    == send_personal_message(mine, active_connections, w, "[STREAM_END]")
       IN  /\ socket' = r.sockets
           /\ active_connections' = r.conns
    /\ UNCHANGED single_session_vars

\* Lines 106-108 and 122-124: the client goes away while the endpoint waits
\* for a message; manager.disconnect deletes the entry of the id.
SocketDisconnects(w) ==
    /\ socket[w].pc = "open"
    /\ socket' = [ socket EXCEPT ![w].pc = "closed" ]
    /\ active_connections' =
          [ active_connections EXCEPT ![socket[w].connection_id] = 0 ]
    /\ UNCHANGED single_session_vars

HostNext ==
    \/ \E w \in 1..MaxSockets, id \in ConnectionIds : Connect(w, id)
    \/ \E w \in 1..MaxSockets : SocketReceives(w)
    \/ \E w \in 1..MaxSockets : SocketSendsChunk(w)
    \/ \E w \in 1..MaxSockets : SocketSendsStreamEnd(w)
    \/ \E w \in 1..MaxSockets : SocketDisconnects(w)

\* The front end serving its websockets, one session each.
HostSpec == Init /\ [][HostNext]_vars

-----------------------------------------------------------------------------
(* Observations used by the properties. *)

\* The events the running frame emitted itself (and the front end's
\* STREAM_END once the call is over).
FrameEvents == SubSeq(events, frame_start + 1, Len(events))

\* Number of events of evs that satisfy a test on tag and payload.
CountEvents(evs, tag, payload) ==
    Cardinality({ i \in 1..Len(evs) : evs[i] = Event(tag, payload) })
CountTag(evs, tag) ==
    Cardinality({ i \in 1..Len(evs) : evs[i].tag = tag })

\* The call of the running user message is over.
CallOver == pc \in { "exhausted", "idle" } /\ nmsgs > 0

\* Positions of the Gateway log's entries of a kind.
GwIdx(kind) == { i \in 1..Len(gw) : gw[i].kind = kind }

NDispatches  == CountEvents(events, "SYSTEM", ExecutingText)
NMarkers     == CountEvents(events, "SYSTEM", FinishedText)
NDepthEvents == CountEvents(events, "SYSTEM", MaxDepthText)

-----------------------------------------------------------------------------
(* C1: in a top-level call with max_depth = N the depth never exceeds N and *)
(* at most N provider streams are opened; the 'Maximum tool call depth      *)
(* reached' event is emitted at most once, by a frame that opens no stream  *)
(* and makes no Gateway call, and it ends the call; and when every stream   *)
(* of the call led to a dispatch, the call consists of exactly N streams,   *)
(* N dispatches and N continuation markers followed by that one event.      *)
C1_DepthBound ==
    /\ depth <= max_depth
    /\ nstreams <= max_depth
    /\ NDispatches <= nstreams
    /\ NDepthEvents <= 1
    /\ NDepthEvents = 1 =>
          /\ CallOver
          /\ stream_state = "none"
          /\ gw = << >>
          /\ nstreams = max_depth
          /\ \E i \in 1..Len(events) :
                /\ events[i] = Event("SYSTEM", MaxDepthText)
                /\ \A j \in (i + 1)..Len(events) : events[j].tag = "STREAM_END"
    /\ (CallOver /\ NDispatches = nstreams) =>
          /\ nstreams = max_depth
          /\ NMarkers = max_depth
          /\ NDepthEvents = 1

\* A call with max_depth = 2 whose two streams both led to a dispatch.
C1_Witness ==
    /\ pc = "exhausted"
    /\ max_depth = 2
    /\ nstreams = 2
    /\ NDispatches = 2
    /\ NMarkers = 2
    /\ NDepthEvents = 1

-----------------------------------------------------------------------------
(* C2: a top-level call never opens more than max_depth provider streams,  *)
(* and once it is started its event generator is eventually exhausted,     *)
(* whatever the streams deliver and whatever the Gateway answers.          *)
C2_Terminates ==
    /\ [](nstreams <= max_depth)
    /\ (pc = "entry" /\ depth = 0) ~> (pc = "exhausted")

\* A call that used its whole depth budget and then ended.
C2_Witness ==
    /\ pc = "exhausted"
    /\ max_depth = MaxDepth
    /\ nstreams = max_depth
    /\ depth = max_depth

-----------------------------------------------------------------------------
(* C3: when a frame's provider stream ends without having completed a      *)
(* closing marker, the frame makes no Gateway call and the events of its   *)
(* turn are LLM events only, followed, once the front end has closed the   *)
(* turn, by exactly one STREAM_END, which is the last event.               *)
NarrationOnly ==
    /\ stream_state = "exhausted"
    /\ ~Contains(full_response_segment, CloseTag)

C3_NarrationOnly ==
    NarrationOnly =>
       /\ CallOver
       /\ gw = << >>
       /\ \A i \in 1..Len(FrameEvents) :
             FrameEvents[i].tag = (IF pc = "idle" /\ i = Len(FrameEvents)
                                   THEN "STREAM_END" ELSE "LLM")
       /\ pc = "idle" => CountTag(FrameEvents, "STREAM_END") = 1

\* A turn of two narration fragments, closed by the front end.
C3_Witness ==
    /\ NarrationOnly
    /\ pc = "idle"
    /\ CountTag(FrameEvents, "LLM") = 2
    /\ Len(FrameEvents) = 3

-----------------------------------------------------------------------------
(* C4 as claimed: when the provider stream raises, the frame emits exactly *)
(* one ERROR event, which carries the fault description, the description   *)
(* is the last thing recorded in History and its entry has role assistant, *)
(* and the call is over with no extraction and no Gateway call.            *)
StreamFaulted == stream_state = "raised"

C4_StreamFaultAsAssistant ==
    StreamFaulted =>
       /\ CallOver
       /\ tool_calls = << >>
       /\ gw = << >>
       /\ CountTag(FrameEvents, "ERROR") = 1
       /\ \E e \in StreamFaults :
             /\ CountEvents(FrameEvents, "ERROR", StreamFaultText(e)) = 1
             /\ LET last == messages[Len(messages)]
                IN  /\ last.role = "assistant"
                    /\ last.content[Len(last.content)] = StreamFaultText(e)

-----------------------------------------------------------------------------
(* C5: when a closing marker was detected and the extractor returned no    *)
(* request, the frame emits exactly one ERROR event (the parse failure),   *)
(* makes no Gateway call, emits no tool event, records the response in     *)
(* History and nothing else, and the call is over: there is no recursion.  *)
ExtractionFailed == tool_call_detected /\ tool_calls = << >>

C5_ExtractionFailure ==
    ExtractionFailed =>
       /\ CallOver
       /\ gw = << >>
       /\ CountTag(FrameEvents, "ERROR") = 1
       /\ CountEvents(FrameEvents, "ERROR", ParseFailText) = 1
       /\ CountTag(FrameEvents, "TOOL_CALL") = 0
       /\ CountTag(FrameEvents, "TOOL_RESULT") = 0
       /\ CountEvents(FrameEvents, "SYSTEM", ExecutingText) = 0
       /\ CountEvents(FrameEvents, "SYSTEM", FinishedText) = 0
       /\ messages = add_message(host_model, stream_input, "assistant",
                                 full_response_segment, FALSE)

\* An extraction failure in a recursive frame, after a dispatch.
C5_Witness ==
    /\ ExtractionFailed
    /\ depth = 1
    /\ pc = "idle"

-----------------------------------------------------------------------------
(* C6: on the single-call path execute is invoked at most 3 times for the  *)
(* request; no invocation follows a success response, so that a first      *)
(* success at attempt k means exactly k invocations; when all 3 attempts   *)
(* fail, exactly 3 invocations are made, the outcome is an error carrying  *)
(* the description of the third failure and the TOOL_RESULT has status     *)
(* error; the delay is taken only after a failed attempt that another      *)
(* attempt follows.                                                        *)
SinglePath == gw # << >> /\ gw[1].op = "execute"
Failing(i) == gw[i].answer.kind # "ok"
Invocations == Cardinality(GwIdx("request"))

C6_RetryBound ==
    SinglePath =>
       /\ Invocations <= 3
       /\ \A i \in GwIdx("request") :
             /\ gw[i].body = << [ tool |-> tool_calls[1].tool_name,
                                  input |-> tool_calls[1].arguments ] >>
             /\ i < Len(gw) => gw[i + 1].kind = "response"
       /\ \A i \in GwIdx("response") : ~Failing(i) => i = Len(gw)
       /\ \A i \in GwIdx("sleep") :
             /\ i > 1 /\ gw[i - 1].kind = "response" /\ Failing(i - 1)
             /\ Cardinality({ j \in GwIdx("request") : j < i }) < 3
             /\ i < Len(gw) => gw[i + 1].kind = "request"
             /\ i = Len(gw) => pc = "sleep"
       /\ pc = "entry" =>
             LET last   == gw[Len(gw)]
                 result == events[Len(events) - 2]
             IN  /\ last.kind = "response"
                 /\ Cardinality(GwIdx("sleep")) = Invocations - 1
                 /\ Len(tool_results_for_history) = 1
                 /\ result.tag = "TOOL_RESULT"
                 /\ last.answer.kind # "ok" =>
                       /\ Invocations = 3
                       /\ tool_results_for_history[1].key = "error="
                       /\ Contains(tool_results_for_history[1].value, last.answer.text)
                       /\ result = Event("TOOL_RESULT",
                                    << "{", "name=" >> \o tool_calls[1].tool_name
                                    \o << "status=", "error", "data=" >>
                                    \o tool_results_for_history[1].value \o << "}" >>)

\* Three failed attempts, of which the last is a transport fault and the
\* first a non-success response.
C6_Witness ==
    /\ SinglePath
    /\ pc = "entry"
    /\ Invocations = 3
    /\ gw[2].answer.kind = "http_error"
    /\ gw[Len(gw)].answer.kind = "exception"

-----------------------------------------------------------------------------
(* C7 as claimed: when the batch-execute call fails at the Gateway level,  *)
(* every request of the batch gets one TOOL_CALL/TOOL_RESULT pair with     *)
(* status error and one error entry in the outcome summary.                *)
BatchFailed ==
    /\ Len(gw) = 2
    /\ gw[1].op = "batch-execute"
    /\ gw[2].answer.kind # "ok"

-----------------------------------------------------------------------------
(* C8: on the batch path batch-execute is invoked exactly once, with the   *)
(* bodies of all requests in request order, and whatever the answer no     *)
(* other Gateway request and no delay follows.                             *)
BatchPath ==
    /\ Len(tool_calls) > 1
    /\ pc \in { "gateway", "sleep", "entry" }

C8_BatchOnce ==
    BatchPath =>
       /\ pc # "sleep"
       /\ GwIdx("request") = { 1 }
       /\ GwIdx("sleep") = { }
       /\ gw[1].op = "batch-execute"
       /\ Len(gw[1].body) = Len(tool_calls)
       /\ \A i \in 1..Len(tool_calls) :
             gw[1].body[i] = [ tool |-> tool_calls[i].tool_name,
                               input |-> tool_calls[i].arguments ]
       /\ pc = "gateway" => Len(gw) = 1
       /\ pc = "entry" => (Len(gw) = 2 /\ gw[2].kind = "response")

\* A batch of two different requests whose only invocation failed.
C8_Witness ==
    /\ BatchPath
    /\ pc = "entry"
    /\ Len(tool_calls) = 2
    /\ tool_calls[1] # tool_calls[2]
    /\ Len(gw) = 2
    /\ gw[2].answer.kind = "http_error"

-----------------------------------------------------------------------------
(* C9 as claimed: on both paths, when the Gateway is asked to execute a    *)
(* request the request's TOOL_CALL event has already been emitted in the   *)
(* frame.                                                                  *)
Announced(body, nev) ==
    \E j \in (frame_start + 1)..nev :
       events[j] = Event("TOOL_CALL", ToolCallPayload(body.tool, body.input))

FramePositions(tags) ==
    { j \in (frame_start + 1)..Len(events) : events[j].tag \in tags }

-----------------------------------------------------------------------------
(* C10: the tool events of a dispatching frame are, in order, TOOL_CALL of *)
(* request 1, TOOL_RESULT of request 1, TOOL_CALL of request 2, ...: each  *)
(* TOOL_CALL is immediately followed by the TOOL_RESULT of the same        *)
(* request, and no event of a later request precedes it, on both paths.    *)
IsToolEvent(e) == e.tag \in { "TOOL_CALL", "TOOL_RESULT" }
IsPrefix(p, t) == Len(p) <= Len(t) /\ SubSeq(t, 1, Len(p)) = p

C10_PairsInRequestOrder ==
    LET T == SelectSeq(FrameEvents, IsToolEvent)
    IN  /\ Len(T) <= 2 * Len(tool_calls)
        /\ \A k \in 1..Len(T) :
              IF k % 2 = 1
              THEN LET call == tool_calls[(k + 1) \div 2]
                   IN  T[k] = Event("TOOL_CALL",
                                    << "{", "name=" >> \o call.tool_name
                                    \o << "arguments=" >> \o call.arguments
                                    \o << "}" >>)
              ELSE LET call == tool_calls[k \div 2]
                   IN  /\ T[k].tag = "TOOL_RESULT"
                       /\ IsPrefix(<< "{", "name=" >> \o call.tool_name
                                   \o << "status=" >>, T[k].payload)
        /\ \A j \in 1..Len(FrameEvents) :
              FrameEvents[j].tag = "TOOL_CALL" =>
                 IF j < Len(FrameEvents)
                 THEN FrameEvents[j + 1].tag = "TOOL_RESULT"
                 ELSE pc \in { "gateway", "sleep" }

\* Two different requests, both reported.
C10_Witness ==
    /\ pc = "entry"
    /\ Len(tool_calls) = 2
    /\ tool_calls[1].tool_name # tool_calls[2].tool_name
    /\ Len(SelectSeq(FrameEvents, IsToolEvent)) = 4

-----------------------------------------------------------------------------
(* C11 as claimed: when a frame's dispatch is over, whatever the Gateway   *)
(* answered, the frame has emitted as many TOOL_CALL events and as many    *)
(* TOOL_RESULT events as requests were extracted, and the outcome summary  *)
(* appended to History has as many entries.                                *)
DispatchDone == gw # << >> /\ pc = "entry"

\* The text most recently recorded in History.
LastRecorded ==
    LET last == messages[Len(messages)]
    IN  last.content[Len(last.content)]

-----------------------------------------------------------------------------
(* C12 as claimed: the step that ends a dispatch records the outcomes of   *)
(* the turn, under either provider variant, as exactly one new History     *)
(* entry whose role is system and whose content is the outcome summary.    *)
SummaryStep == pc = "gateway" /\ pc' = "entry"
SummaryText == tool_result_content(tool_results_for_history')

NewSystemSummaryEntry ==
    /\ Len(messages') = Len(messages) + 1
    /\ SubSeq(messages', 1, Len(messages)) = messages
    /\ messages'[Len(messages')].role = "system"
    /\ messages'[Len(messages')].content = << SummaryText >>

SummaryFoldedIntoAssistant ==
    /\ Len(messages') = Len(messages)
    /\ \A i \in 1..(Len(messages) - 1) : messages'[i] = messages[i]
    /\ messages[Len(messages)].role = "assistant"
    /\ messages'[Len(messages)].role = "assistant"
    /\ messages'[Len(messages)].content =
          Append(messages[Len(messages)].content, SummaryText)
    /\ full_response_segment \in
          { messages[Len(messages)].content[k] :
               k \in 1..Len(messages[Len(messages)].content) }

-----------------------------------------------------------------------------
(* C13 as claimed: in every state of an initialized session, under either  *)
(* provider variant, the first History entry has role system and no other  *)
(* entry has role system.                                                  *)
SystemEntries == { i \in 1..Len(messages) : messages[i].role = "system" }

C13_SystemFirstAndUnique == initialized => SystemEntries = { 1 }

(* C13, amended: in every state of an initialized session the first        *)
(* History entry has role system; under the merging variant (openai) no    *)
(* other entry has role system; under the replacing variant (groq) the     *)
(* other system entries are exactly the entries recorded without no_tool:  *)
(* a response that holds a closing marker, an outcome summary or a stream  *)
(* fault description, while user messages and narration-only responses     *)
(* keep the roles user and assistant.                                      *)
RecordedWithoutNoTool(text) ==
    \/ HasCloseMarker(text)
    \/ IsPrefix(<< "Executed tools with results:\n" >>, text)
    \/ IsPrefix(<< "Error during LLM stream: " >>, text)

C13_SystemFirst ==
    initialized =>
       /\ 1 \in SystemEntries
       /\ host_model = "openai" => SystemEntries = { 1 }
       /\ host_model = "groq" =>
             \A i \in 2..Len(messages) :
                /\ Len(messages[i].content) = 1
                /\ messages[i].role = "system"
                      <=> RecordedWithoutNoTool(messages[i].content[1])
                /\ messages[i].role \in { "system", "user", "assistant" }

\* Under the replacing variant History holds the system prompt, the user
\* message, a tool-bearing response and its outcome summary.
C13_Witness ==
    /\ host_model = "groq"
    /\ Len(messages) >= 4
    /\ messages[2].role = "user"
    /\ SystemEntries = { 1, 3, 4 }

-----------------------------------------------------------------------------
(* C14: with the merging variant (openai), a step that records assistant   *)
(* content while the last History entry has role assistant adds no entry   *)
(* and appends the content as the last part of that entry, leaving every   *)
(* other entry and the earlier parts as they were; and after every step    *)
(* History holds no two adjacent assistant entries.                        *)
AssistantRecorded ==
    /\ pc \in { "stream", "gateway" }
    /\ messages' # messages

NoAdjacentAssistant(msgs) ==
    \A i \in 1..(Len(msgs) - 1) :
       ~(msgs[i].role = "assistant" /\ msgs[i + 1].role = "assistant")

C14_AssistantMerged ==
    [][host_model = "openai" =>
          /\ NoAdjacentAssistant(messages')
          /\ (AssistantRecorded /\ messages # << >>
                 /\ messages[Len(messages)].role = "assistant") =>
                /\ Len(messages') = Len(messages)
                /\ \A i \in 1..(Len(messages) - 1) : messages'[i] = messages[i]
                /\ messages'[Len(messages)].role = "assistant"
                /\ Len(messages'[Len(messages)].content) =
                      Len(messages[Len(messages)].content) + 1
                /\ SubSeq(messages'[Len(messages)].content, 1,
                          Len(messages[Len(messages)].content)) =
                      messages[Len(messages)].content]_vars

\* An assistant entry that received a response, its outcome summary and the
\* response of the next frame.
C14_Witness ==
    /\ host_model = "openai"
    /\ messages # << >>
    /\ messages[Len(messages)].role = "assistant"
    /\ Len(messages[Len(messages)].content) = 3
    /\ depth = 1

-----------------------------------------------------------------------------
(* C15: with the replacing variant (groq), every step that calls           *)
(* add_message grows History by exactly one entry and leaves the entries   *)
(* it had as they were, no other step changes History, and the outcome     *)
(* summary of a dispatch is recorded as a new entry with role system.      *)
AddMessageCalled ==
    \/ pc = "entry" /\ pc' = "stream" /\ depth = 0 /\ user_message # << >>
    \/ pc = "stream" /\ stream_state' = "raised"
    \/ pc = "stream" /\ pc' # "stream" /\ full_response_segment' # << >>
    \/ SummaryStep

C15_OneNewEntryPerAddition ==
    [][(host_model = "groq" /\ initialized) =>
          /\ AddMessageCalled =>
                /\ Len(messages') = Len(messages) + 1
                /\ SubSeq(messages', 1, Len(messages)) = messages
          /\ ~AddMessageCalled => messages' = messages
          /\ SummaryStep => NewSystemSummaryEntry]_vars

\* Under the replacing variant two consecutive system entries: a
\* tool-bearing response and the outcome summary of its dispatch.
C15_Witness ==
    /\ host_model = "groq"
    /\ DispatchDone
    /\ Len(messages) >= 3
    /\ messages[Len(messages) - 1] = Msg("system", FALSE, full_response_segment)
    /\ messages[Len(messages)] =
          Msg("system", FALSE, tool_result_content(tool_results_for_history))

-----------------------------------------------------------------------------
(* C16: History of an initialized session is append-only: no step makes    *)
(* the log shorter, removes or reorders an entry or changes an entry's     *)
(* role, and what an entry held before a step is a prefix of what it holds *)
(* after it.                                                               *)
C16_AppendOnly ==
    [][initialized =>
          /\ Len(messages') >= Len(messages)
          /\ \A i \in 1..Len(messages) :
                /\ messages'[i].role = messages[i].role
                /\ messages'[i].parts = messages[i].parts
                /\ IsPrefix(messages[i].content, messages'[i].content)]_vars

\* A finished call whose History holds an entry that grew by a part and the
\* entries recorded before it.
C16_Witness ==
    /\ pc = "idle"
    /\ nmsgs >= 1
    /\ Len(messages) = 3
    /\ messages[2].role = "user"
    /\ Len(messages[3].content) = 2

-----------------------------------------------------------------------------
(* C17: the step that opens the stream of a top-level call (depth 0) with  *)
(* a user message first appends the message to History as a separate       *)
(* entry with role user and hands the stream that History; the step that   *)
(* opens the stream of a recursive frame (depth > 0) hands it History      *)
(* unchanged; no step other than the entry of a top-level call changes the *)
(* number of user entries, and user input is read only between calls.      *)
UserEntries(msgs) == { i \in 1..Len(msgs) : msgs[i].role = "user" }
StreamOpens == pc = "entry" /\ pc' = "stream"

C17_UserMessageBeforeStream ==
    [][/\ (StreamOpens /\ depth = 0 /\ user_message # << >>) =>
             /\ Len(messages') = Len(messages) + 1
             /\ SubSeq(messages', 1, Len(messages)) = messages
             /\ messages'[Len(messages')].role = "user"
             /\ messages'[Len(messages')].content = << user_message >>
             /\ stream_input' = messages'
       /\ (StreamOpens /\ depth > 0) =>
             /\ messages' = messages
             /\ stream_input' = messages
       /\ ~(pc = "entry" /\ depth = 0) =>
             Cardinality(UserEntries(messages')) = Cardinality(UserEntries(messages))
       /\ (nmsgs' # nmsgs \/ user_message' # user_message) => pc = "idle"]_vars

\* A recursive frame streams on a History that holds the one user entry,
\* followed by what the first frame recorded.
C17_Witness ==
    /\ pc = "stream"
    /\ depth = 1
    /\ stream_input = messages
    /\ Cardinality(UserEntries(messages)) = 1
    /\ messages[Len(messages)].role # "user"

-----------------------------------------------------------------------------
(* C18: a frame processes at most one envelope: it emits at most one 'Tool *)
(* call detected' SYSTEM event and at most one RAW_TOOL_CALL event, whose  *)
(* payload is the first complete envelope of the buffer (it starts at the  *)
(* first opening tag and ends at the first closing marker after it), and   *)
(* it extracts at most one request and dispatches at most once, also when  *)
(* the buffer holds further closing markers.                               *)
ClosingMarkers(buf) == { c \in 1..Len(buf) : OccursAt(buf, CloseTag, c) }

FirstEnvelopeOf(p, buf) ==
    LET o == Find(buf, OpenTag, 1)
    IN  /\ o # 0
        /\ OccursAt(buf, p, o)
        /\ ClosingMarkers(p) = { Len(p) - Len(CloseTag) + 1 }

C18_OneEnvelopePerFrame ==
    /\ CountEvents(FrameEvents, "SYSTEM", DetectedText)
          = (IF tool_call_detected THEN 1 ELSE 0)
    /\ CountTag(FrameEvents, "RAW_TOOL_CALL") <= 1
    /\ \A i \in 1..Len(FrameEvents) :
          FrameEvents[i].tag = "RAW_TOOL_CALL" =>
             /\ i > 1
             /\ FrameEvents[i - 1] = Event("SYSTEM", DetectedText)
             /\ FirstEnvelopeOf(FrameEvents[i].payload, full_response_segment)
    /\ Len(tool_calls) <= 1
    /\ CountEvents(FrameEvents, "SYSTEM", ExecutingText) <= 1
    /\ CountTag(FrameEvents, "TOOL_CALL") <= 1

\* A buffer with two envelopes: the first was announced and dispatched.
C18_Witness ==
    /\ Cardinality(ClosingMarkers(full_response_segment)) = 2
    /\ DispatchDone
    /\ CountTag(FrameEvents, "RAW_TOOL_CALL") = 1
    /\ Len(tool_calls) = 1
    /\ tool_calls[1].tool_name = << "read_file" >>

-----------------------------------------------------------------------------
(* C19: once the buffer of a frame holds a closing marker, the frame does  *)
(* not wait for another fragment: its stream is abandoned; the buffer is   *)
(* the narration emitted so far followed by the one fragment that          *)
(* completed the marker, and the response recorded in History is that      *)
(* buffer.                                                                 *)
RECURSIVE LeadingNarration(_)
LeadingNarration(evs) ==
    IF evs = << >> \/ Head(evs).tag # "LLM" THEN << >>
    ELSE Head(evs).payload \o LeadingNarration(Tail(evs))

C19_StreamAbandonedAtMarker ==
    HasCloseMarker(full_response_segment) =>
       LET pre == LeadingNarration(FrameEvents)
       IN  /\ pc # "stream"
           /\ stream_state = "abandoned"
           /\ tool_call_detected
           /\ IsPrefix(pre, full_response_segment)
           /\ ~HasCloseMarker(pre)
           /\ Drop(full_response_segment, Len(pre) + 1) \in Fragments
           /\ pc \in { "dispatch", "gateway", "sleep", "exhausted", "idle" } =>
                 \E k \in 1..Len(messages) :
                    full_response_segment \in
                       { messages[k].content[j] : j \in 1..Len(messages[k].content) }
           /\ pc \in { "dispatch", "gateway", "sleep" } =>
                 LastRecorded = full_response_segment

\* The marker was completed by the fragment that holds its second half,
\* after a fragment that was emitted as narration.
C19_Witness ==
    /\ HasCloseMarker(full_response_segment)
    /\ pc = "dispatch"
    /\ LeadingNarration(FrameEvents) # << >>
    /\ Drop(full_response_segment, Len(LeadingNarration(FrameEvents)) + 1)
          = << "_call>" >>

-----------------------------------------------------------------------------
(* C20: a step that consumes a fragment emits nothing for an empty         *)
(* fragment, exactly one LLM event whose payload is the fragment when the  *)
(* buffer with the fragment holds no closing marker, and no LLM event when *)
(* it holds one; as long as no marker was seen the payloads of the frame's *)
(* LLM events, in order, make up the buffer, so that every fragment was    *)
(* emitted once and in arrival order.                                      *)
FragmentConsumed == pc = "stream" /\ nfrag' = nfrag + 1
Arrived == Drop(full_response_segment', Len(full_response_segment) + 1)

C20_NarrationEmittedOnce ==
    [][/\ FragmentConsumed =>
             IF Arrived = << >>
             THEN events' = events
             ELSE IF ~Contains(full_response_segment', CloseTag)
                  THEN events' = Append(events, [ tag |-> "LLM", payload |-> Arrived ])
                  ELSE /\ IsPrefix(events, events')
                       /\ CountTag(events', "LLM") = CountTag(events, "LLM")
       /\ (pc' = "stream" /\ ~tool_call_detected') =>
             /\ \A i \in 1..Len(FrameEvents') : FrameEvents'[i].tag = "LLM"
             /\ LeadingNarration(FrameEvents') = full_response_segment'
       /\ (tool_call_detected /\ frame_start' = frame_start) =>
             \A i \in (Len(events) + 1)..Len(events') :
                events'[i].tag = "LLM" => events'[i].payload = SeparatorText]_vars

\* Two narration fragments were consumed and emitted, in order.
C20_Witness ==
    /\ pc = "stream"
    /\ full_response_segment = << Narration, Narration >>
    /\ FrameEvents = << Event("LLM", << Narration >>), Event("LLM", << Narration >>) >>

-----------------------------------------------------------------------------
(* C21: for the generation "narration 'Reading file. ', then the read_file *)
(* envelope" the events of the turn are, in this order: one LLM event per  *)
(* fragment that arrived before the fragment completing the closing marker *)
(* (LLM 'Reading file. ' first when the narration arrived as a fragment of *)
(* its own, no LLM event when the generation arrived as one fragment),     *)
(* SYSTEM 'Tool call detected. Processing...', RAW_TOOL_CALL with the      *)
(* envelope verbatim, SYSTEM 'Executing tools...', TOOL_CALL naming        *)
(* read_file with file_path a.txt, TOOL_RESULT for read_file, the          *)
(* separator and the continuation marker, then the events of the recursion *)
(* and, last, STREAM_END.                                                  *)
ReadFileCall == [ tool_name |-> << "read_file" >>, arguments |-> << ValueA >> ]

\* The top-level frame of the running call has dispatched.
TopFrameDone == nmsgs > 0 /\ depth >= 1

\* Position of the detection event of the top-level frame.
DetectedAt ==
    CHOOSE i \in 1..Len(events) :
       /\ events[i] = Event("SYSTEM", DetectedText)
       /\ \A j \in 1..(i - 1) : events[j] # Event("SYSTEM", DetectedText)

\* The statement as the scenario gives it: the LLM event of the narration
\* comes first, whatever the fragments were.
C21_ScenarioAsStated ==
    TopFrameDone =>
       /\ events[1] = Event("LLM", << Narration >>)
       /\ \E d, r, c, t \in 1..Len(events) :
             /\ 1 < d /\ d < r /\ r < c /\ c < t
             /\ events[d] = Event("SYSTEM", DetectedText)
             /\ events[r] = Event("RAW_TOOL_CALL", Envelope("read_file", JsonA))
             /\ events[c] = ToolCallEvent(ReadFileCall)
             /\ events[t].tag = "TOOL_RESULT"

C21_ScenarioOrder ==
    TopFrameDone =>
       /\ CountEvents(events, "SYSTEM", DetectedText) >= 1
       /\ LET d   == DetectedAt
              pre == LeadingNarration(events)
          IN  /\ \A i \in 1..(d - 1) :
                    events[i].tag = "LLM" /\ events[i].payload # << >>
              /\ IsPrefix(pre, Generation)
              /\ Len(pre) \in CutPoints \cup { 0 }
              /\ ~HasCloseMarker(pre)
              /\ Len(pre) = 0 <=> d = 1
              /\ Len(events) >= d + 6
              /\ events[d + 1] = Event("RAW_TOOL_CALL", Envelope("read_file", JsonA))
              /\ events[d + 2] = Event("SYSTEM", ExecutingText)
              /\ events[d + 3] = ToolCallEvent(ReadFileCall)
              /\ events[d + 4].tag = "TOOL_RESULT"
              /\ \E status \in { "success", "error" } :
                    IsPrefix(<< "{", "name=", "read_file", "status=", status, "data=" >>,
                             events[d + 4].payload)
              /\ events[d + 5] = Event("LLM", SeparatorText)
              /\ events[d + 6] = Event("SYSTEM", FinishedText)
              /\ \A i \in (d + 7)..Len(events) :
                    events[i].tag \in { "SYSTEM", "STREAM_END" }
              /\ pc = "idle" =>
                    /\ events[Len(events)] = Event("STREAM_END", << >>)
                    /\ CountTag(events, "STREAM_END") = 1

\* The narration arrived as a fragment of its own and the envelope as the
\* next one; the turn is over.
C21_Witness ==
    /\ TopFrameDone
    /\ pc = "idle"
    /\ events[1] = Event("LLM", << Narration >>)
    /\ events[2] = Event("SYSTEM", DetectedText)
    /\ events[6].tag = "TOOL_RESULT"

-----------------------------------------------------------------------------
(* C22: every fault of a turn is surfaced as a tagged event (ERROR, or     *)
(* TOOL_RESULT with status error) before the turn ends: a stream fault, an *)
(* extraction failure, a tool fault on the single-call or the batch path,  *)
(* and a failure to fetch the tool catalog.                                *)
ErrorSurfaced(evs) ==
    \E i \in 1..Len(evs) :
       \/ evs[i].tag = "ERROR"
       \/ evs[i].tag = "TOOL_RESULT" /\ Contains(evs[i].payload, << "status=", "error" >>)

\* fetch_tools did not get the catalog: self.tools is still empty.
FetchFailed == initialized /\ tools = << >>

\* The dispatch of the frame ended with a failing answer of the Gateway.
ToolFault == DispatchDone /\ Failing(Len(gw))

CatalogFaultSurfaced ==
    (CallOver /\ nmsgs = 1 /\ FetchFailed) => ErrorSurfaced(events)

FrameFaultSurfaced ==
    (StreamFaulted \/ ExtractionFailed \/ ToolFault) => ErrorSurfaced(FrameEvents)

C22_EveryFaultSurfaced ==
    /\ CatalogFaultSurfaced
    /\ FrameFaultSurfaced

-----------------------------------------------------------------------------
(* C23: a tool fault does not end the turn: when a dispatch ends with an   *)
(* error (the last attempt of a single call failed, a tool answered with   *)
(* an error, a batch item failed or the batch call itself failed) the      *)
(* error's description is in the outcome summary appended to History, the  *)
(* frame recurses with depth + 1, and a provider stream opened by the      *)
(* recursion is given a History that holds the description.                *)

\* The descriptions of the faults the Gateway log of the frame holds.
FaultTexts(log) ==
    LET a == log[Len(log)].answer
    IN  IF log[1].op = "execute"
        THEN IF a.kind # "ok" THEN { a.text }
             ELSE IF a.result.has_error THEN { a.result.error } ELSE { }
        ELSE IF a.kind # "ok" THEN { a.text }
             ELSE { a.results[i].error :
                       i \in { j \in 1..Len(a.results) : ~a.results[j].success } }

\* The text t is part of an error outcome of the summary last recorded.
ErrorRecorded(t, results, msgs) ==
    /\ \E i \in 1..Len(results) :
          results[i].key = "error=" /\ Contains(results[i].value, t)
    /\ LET last == msgs[Len(msgs)]
       IN  /\ Contains(last.content[Len(last.content)], t)
           /\ last.content[Len(last.content)] = tool_result_content(results)

\* Restricted to dispatches whose batch call was answered.
C23_AnsweredDispatch ==
    [][/\ (SummaryStep /\ ~BatchFailed') =>
             /\ depth' = depth + 1
             /\ \A t \in FaultTexts(gw') :
                   ErrorRecorded(t, tool_results_for_history', messages')
       /\ (DispatchDone /\ ~BatchFailed /\ StreamOpens) =>
             /\ stream_input' = messages
             /\ \A t \in FaultTexts(gw) :
                   ErrorRecorded(t, tool_results_for_history, stream_input')]_vars

-----------------------------------------------------------------------------
(* C24: when the front end has handled a user message, the events of the   *)
(* turn end with exactly one STREAM_END without payload, whether the turn  *)
(* ended by narration, by depth exhaustion, by an extraction failure or by *)
(* a stream fault; while the turn runs no STREAM_END has been emitted.     *)
StreamEnd == Event("STREAM_END", << >>)

C24_OneStreamEndLast ==
    /\ (pc = "idle" /\ nmsgs > 0) =>
          /\ events[Len(events)] = StreamEnd
          /\ CountTag(events, "STREAM_END") = 1
          /\ \A i \in 1..(Len(events) - 1) : events[i].tag # "STREAM_END"
          /\ \/ NarrationOnly
             \/ StreamFaulted
             \/ ExtractionFailed
             \/ SubSeq(events, frame_start + 1, Len(events) - 1)
                   = << Event("SYSTEM", MaxDepthText) >>
    /\ pc # "idle" => CountTag(events, "STREAM_END") = 0

\* A turn that ended by a stream fault after a dispatch: the fault's ERROR
\* event is followed by STREAM_END.
C24_Witness ==
    /\ pc = "idle"
    /\ StreamFaulted
    /\ depth > 0
    /\ Len(events) >= 2
    /\ events[Len(events) - 1].tag = "ERROR"
    /\ events[Len(events)] = StreamEnd

-----------------------------------------------------------------------------
(* C25: the extractor yields, for every text, a list of zero or one        *)
(* request, each with a tool name and an argument value; a text that lacks *)
(* an opening or closing tool_name tag or the opening arguments tag yields *)
(* the empty list; a text holding no JSON value yields the empty list, or *)
(* a request with the empty mapping (empty raw argument text) or with the  *)
(* empty string the repair library handed back, never another value.      *)
Parsed == pc = "parsed"

\* The raw argument text holds a JSON text.
HoldsJson(text) == \E i \in 1..Len(text) : text[i] \in JsonTexts

C25_ExtractorTotal ==
    Parsed =>
       LET text == full_response_segment
       IN  /\ Len(tool_calls) <= 1
           /\ \A i \in 1..Len(tool_calls) :
                 /\ DOMAIN tool_calls[i] = { "tool_name", "arguments" }
                 /\ tool_calls[i].arguments # << >>
           /\ (~Contains(text, NameOpen) \/ ~Contains(text, NameClose)
                  \/ ~Contains(text, ArgsOpen)) => tool_calls = << >>
           /\ (tool_calls # << >> /\ ~HoldsJson(text)) =>
                 tool_calls[1].arguments \in { << EmptyObj >>, << "str()" >> }

\* A text with two envelopes was parsed to one request.
C25_Witness ==
    /\ Parsed
    /\ full_response_segment
          = Envelope("read_file", JsonA) \o Envelope("run_command", JsonB)
    /\ Len(tool_calls) = 1

-----------------------------------------------------------------------------
(* C26: for every envelope with a well-formed tool_name element and an     *)
(* arguments element holding valid structured data the extractor yields    *)
(* exactly one request, whose name is the element's name and whose         *)
(* arguments are the value of the data; the same holds for a text that     *)
(* begins directly with the inner tags, without the wrapper.               *)

\* The well-formed texts with their name and the value of their arguments;
\* an envelope may follow narration, white space may separate the elements.
Inner(p, j) ==
    Pad(p) \o NameOpen \o << "read_file" >> \o NameClose \o Pad(p)
           \o ArgsOpen \o Pad(p) \o << j >> \o ArgsClose \o Pad(p)

WellFormed ==
    { [ text  |-> lead \o OpenTag \o Inner(p, j[1]) \o CloseTag,
        name  |-> << "read_file" >>,
        value |-> << j[2] >> ] :
         p \in 0..MaxPad, j \in { << JsonA, ValueA >>, << JsonB, ValueB >> },
         lead \in { << >>, << Narration >> } }
    \cup { [ text  |-> Inner(p, j[1]),
             name  |-> << "read_file" >>,
             value |-> << j[2] >> ] :
              p \in 0..MaxPad, j \in { << JsonA, ValueA >>, << JsonB, ValueB >> } }

C26_WellFormedExtracted ==
    Parsed =>
       \A w \in WellFormed :
          full_response_segment = w.text =>
             tool_calls = << [ tool_name |-> w.name, arguments |-> w.value ] >>

\* A wrapper-less text with white space between its elements was parsed.
C26_Witness ==
    /\ Parsed
    /\ full_response_segment
          = << " " >> \o NameOpen \o << "read_file" >> \o NameClose \o << " " >>
            \o ArgsOpen \o << " ", JsonB >> \o ArgsClose \o << " " >>
    /\ tool_calls = << [ tool_name |-> << "read_file" >>, arguments |-> << ValueB >> ] >>

-----------------------------------------------------------------------------
(* C27: when the raw argument text, everything after the opening arguments *)
(* tag up to the end of the envelope, is empty or white space, the         *)
(* extractor yields exactly one request with the tool name and the empty   *)
(* mapping, whatever the repair library would do: the repair pass is not   *)
(* run and no failure is reported.                                         *)
EmptyArguments ==
    { lead \o OpenTag \o Pad(p) \o NameOpen \o << "read_file" >> \o NameClose
           \o Pad(p) \o ArgsOpen \o Pad(p) \o CloseTag :
         p \in 0..MaxPad, lead \in { << >>, << Narration >> } }
    \cup { Pad(p) \o NameOpen \o << "read_file" >> \o NameClose \o Pad(p)
                  \o ArgsOpen \o Pad(p) \o c \o Pad(p) :
              p \in 0..MaxPad, c \in { << >>, ArgsClose } }

C27_EmptyArguments ==
    (Parsed /\ full_response_segment \in EmptyArguments) =>
       tool_calls = << [ tool_name |-> << "read_file" >>, arguments |-> << EmptyObj >> ] >>

\* An envelope whose arguments element is only its opening tag was parsed.
C27_Witness ==
    /\ Parsed
    /\ full_response_segment
          = OpenTag \o NameOpen \o << "read_file" >> \o NameClose \o ArgsOpen \o CloseTag
    /\ tool_calls = << [ tool_name |-> << "read_file" >>, arguments |-> << EmptyObj >> ] >>

-----------------------------------------------------------------------------
(* C28: the Gateway's catalog cache is populated on first access and never *)
(* changes afterwards: once a get_tools call has stored a catalog, the      *)
(* globals keep that catalog and mapping and every get_tools call that      *)
(* returns, returns them, also when several first accesses race; a call     *)
(* that starts after a population issues no fetch.                          *)
Populated == tools_cache # << >>

\* A call that starts when the cache is populated returns without a fetch.
C28_NoFetchOncePopulated ==
    [][\A i \in 1..MaxAccesses :
          (Populated /\ access[i].pc = "idle" /\ access'[i].pc # "idle") =>
             access'[i] = Returned(tools_cache[1], server_tools_mapping)]_vars

C28_CacheNeverChanges ==
    [][/\ Populated =>
             /\ tools_cache' = tools_cache
             /\ server_tools_mapping' = server_tools_mapping
       /\ \A i \in 1..MaxAccesses :
             (Populated /\ access[i].pc # "returned" /\ access'[i].pc = "returned") =>
                access'[i] = Returned(tools_cache[1], server_tools_mapping)
       /\ \A i \in 1..MaxAccesses :
             (Populated /\ access[i].pc = "idle" /\ access'[i].pc # "idle") =>
                access'[i].pc = "returned"]_vars

-----------------------------------------------------------------------------
(* C29: a session calls fetch_tools exactly once, while it initializes and *)
(* before its first turn starts; once it is initialized no step (a later   *)
(* frame or turn passing the initialize check, an add_message call)        *)
(* fetches again, changes the tool snapshot, or replaces History by the    *)
(* system prompt: History keeps its first entry and never gets shorter.    *)
C29_FetchOnce ==
    [][/\ initialized =>
             /\ initialized'
             /\ nfetch' = nfetch
             /\ tools' = tools
             /\ Len(messages') >= Len(messages)
             /\ messages'[1] = messages[1]
       /\ ~initialized => nfetch = 0 /\ pc = "new"
       /\ pc' # "new" =>
             /\ initialized'
             /\ nfetch' = 1
             /\ messages'[1] = Msg("system", FALSE, create_system_prompt(tools'))]_vars

\* A frame of the recursion of the second turn has passed the initialize
\* check and opened its stream on a History that holds the earlier entries.
C29_Witness ==
    /\ pc = "stream"
    /\ nmsgs = 2
    /\ depth >= 1
    /\ nfetch = 1
    /\ Len(messages) >= 4
    /\ stream_input = messages

-----------------------------------------------------------------------------
(* C30: within a session at most one turn is active: the front end reads a *)
(* user message, and a top-level interactive_stream_chat starts, only when *)
(* no turn is running, that is before the first turn or after the previous *)
(* turn's generator was exhausted and STREAM_END was sent for it; History  *)
(* is changed only by initialization or by the one running turn, so its    *)
(* mutations are totally ordered.                                          *)
TurnRunning == pc \in { "entry", "stream", "dispatch", "gateway", "sleep", "exhausted" }

C30_OneTurnAtATime ==
    [][/\ nmsgs' # nmsgs =>
             /\ nmsgs' = nmsgs + 1
             /\ ~TurnRunning
             /\ stream_state # "open"
             /\ nmsgs > 0 => (events # << >> /\ events[Len(events)] = StreamEnd)
             /\ pc' = "entry" /\ depth' = 0
       /\ (~TurnRunning /\ TurnRunning') => nmsgs' = nmsgs + 1
       /\ (TurnRunning /\ ~TurnRunning') =>
             /\ pc = "exhausted"
             /\ events' = Append(events, StreamEnd)
             /\ messages' = messages
       /\ messages' # messages => (pc = "new" \/ (TurnRunning /\ TurnRunning'))
       /\ TurnRunning => nmsgs > 0]_vars

\* The second user message was read after a first turn that dispatched a
\* tool, and its turn has opened a stream.
C30_Witness ==
    /\ pc = "stream"
    /\ nmsgs = 2
    /\ depth = 0
    /\ Len(messages) >= 4
    /\ Cardinality(UserEntries(messages)) = 2

-----------------------------------------------------------------------------
(* C31: sessions are isolated under every interleaving and every choice of *)
(* connection ids: the History of a session holds only entries its own     *)
(* turns made, and a websocket is sent only what its own session's turns    *)
(* produced, all of it.                                                     *)
HistoriesIsolated ==
    \A w \in 1..MaxSockets :
       \A i \in 1..Len(socket[w].messages) : socket[w].messages[i][1] = w

DeliveredToOwner ==
    \A w \in 1..MaxSockets :
       \A i \in 1..Len(socket[w].received) : socket[w].received[i][1] = w

C31_SessionsIsolated ==
    /\ HistoriesIsolated
    /\ DeliveredToOwner


-----------------------------------------------------------------------------
(* C32: for every list of requests the Gateway's batch-execute returns     *)
(* exactly one outcome per request, in request order, each flagged success *)
(* or error; a request that fails (unknown tool name, backend fault,       *)
(* backend non-success status) gives an error outcome and the requests     *)
(* after it are still executed.                                            *)

\* The batch never ends short: it stops only with one item per request,
\* item k naming the tool of request k.
OneOutcomePerRequest ==
    /\ batch.pc \in { "idle", "loop", "get_tools", "returned" }
    /\ Len(batch.results) <= Len(batch.requests)
    /\ \A k \in 1..Len(batch.results) :
          /\ batch.results[k].tool = batch.requests[k]
          /\ batch.results[k].success \in BOOLEAN
    /\ batch.pc = "returned" <=>
          (batch.pc # "idle" /\ Len(batch.results) = Len(batch.requests))

\* The item a request gets is an error exactly when its tool is not in the
\* mapping or the server did not answer 200, and the earlier items stay.
FailureIsAnErrorItem ==
    batch.pc = "get_tools" /\ batch'.pc # "get_tools" =>
       LET k    == Len(batch.results) + 1
           tool == batch.requests[k]
           known == \E pair \in access[batch.slot].mapping : pair[1] = tool
           posted == backend_calls' # backend_calls
           answered == backend_calls'[Len(backend_calls')].answer
       IN  /\ Len(batch'.results) = k
           /\ SubSeq(batch'.results, 1, k - 1) = batch.results
           /\ posted <=> known
           /\ batch'.results[k].success <=> (known /\ answered = "ok")
           /\ ~batch'.results[k].success => batch'.results[k].error # ""

C32_BatchOutcomes ==
    [][OneOutcomePerRequest' /\ FailureIsAnErrorItem]_vars

\* A two-request batch has returned whose first request failed at the
\* server and whose second request succeeded.
C32_Witness ==
    /\ batch.pc = "returned"
    /\ Len(batch.requests) = 2
    /\ ~batch.results[1].success
    /\ batch.results[1].error = "Tool execution failed: fault"
    /\ batch.results[2].success


-----------------------------------------------------------------------------
(* C33: dispatching the same request twice against a Gateway whose execute *)
(* is idempotent (the same answer to the request on every attempt) gives   *)
(* identical outcomes and identical TOOL_CALL and TOOL_RESULT payloads     *)
(* both times.                                                             *)

\* The Gateway gave one and the same answer to every attempt of both
\* dispatches.
SameIdempotentAnswer(d1, d2) ==
    /\ d1.call = d2.call
    /\ d1.answers = d2.answers
    /\ Cardinality(d1.answers) = 1

C33_IdempotentDispatch ==
    \A d1, d2 \in dispatched :
       SameIdempotentAnswer(d1, d2) =>
          /\ d1.tool_call.payload = d2.tool_call.payload
          /\ d1.tool_result.payload = d2.tool_result.payload
          /\ d1.outcomes = d2.outcomes

\* Two frames of one turn have each dispatched the same request, every
\* attempt of both was answered with the same fault, and both dispatches
\* left the same record.
C33_Witness ==
    /\ depth = 2
    /\ nstreams = 2
    /\ Cardinality(dispatched) = 1
    /\ \A d \in dispatched :
          /\ d.answers = { Answer("exception", 0, EmptyDict, << >>, << "ReadTimeout" >>) }
          /\ d.tool_result.tag = "TOOL_RESULT"
          /\ Len(d.outcomes) = 1


-----------------------------------------------------------------------------
(* C34: tool names are unique within the catalog the Gateway serves: no    *)
(* two descriptors of the cached catalog share a name, and each catalogued *)
(* name maps to exactly one backend.                                       *)

\* Every name of the cached catalog has exactly one server in the mapping.
EachNameOneBackend ==
    tools_cache # << >> =>
       \A k \in 1..Len(tools_cache[1]) :
          Cardinality({ pair \in server_tools_mapping : pair[1] = tools_cache[1][k] }) = 1

\* No two positions of the cached catalog hold the same name.
NoDuplicateNames ==
    tools_cache # << >> =>
       \A j, k \in 1..Len(tools_cache[1]) :
          tools_cache[1][j] = tools_cache[1][k] => j = k

C34_UniqueToolNames ==
    /\ NoDuplicateNames
    /\ EachNameOneBackend


-----------------------------------------------------------------------------
(* C35: in every reachable state of the orchestrator the list of requests  *)
(* extracted for a turn has length at most 1, so the batch path is never   *)
(* taken from interactive_stream_chat and every dispatch goes through the  *)
(* single-call path.                                                       *)
C35_NeverBatch ==
    /\ Len(tool_calls) <= 1
    /\ \A k \in 1..Len(gw) : gw[k].op = "execute"
    /\ pc \in { "dispatch", "gateway", "sleep" } => Len(tool_calls) = 1

TwoEnvelopes == Envelope("read_file", JsonA) \o Envelope("run_command", JsonB)

\* A response that ends with two envelopes is being dispatched, with one
\* request, on the single-call path.
C35_Witness ==
    /\ pc = "gateway"
    /\ Len(full_response_segment) >= Len(TwoEnvelopes)
    /\ SubSeq(full_response_segment,
              Len(full_response_segment) - Len(TwoEnvelopes) + 1,
              Len(full_response_segment)) = TwoEnvelopes
    /\ Len(tool_calls) = 1
    /\ gw[1].op = "execute"


-----------------------------------------------------------------------------
(* C36: in a frame the payloads of the LLM events the detector produced,   *)
(* concatenated, are the fragments that arrived strictly before the        *)
(* fragment completing the closing marker: a fragment holding the          *)
(* beginning of the envelope is emitted as narration, no text of the       *)
(* completing fragment is (narration before its envelope included), and    *)
(* History records the whole buffer with the completing fragment.          *)
RECURSIVE NarrationOf(_)
NarrationOf(evs) ==
    IF evs = << >> THEN << >>
    ELSE (IF Head(evs).tag = "LLM" THEN Head(evs).payload ELSE << >>)
         \o NarrationOf(Tail(evs))

\* The step in which a fragment completes the closing marker.
MarkerCompleted ==
    /\ pc = "stream"
    /\ ~HasCloseMarker(full_response_segment)
    /\ HasCloseMarker(full_response_segment')

C36_EmittedBeforeCompletion ==
    [][MarkerCompleted =>
          LET before     == full_response_segment
              completing == Drop(full_response_segment', Len(before) + 1)
              emitted    == NarrationOf(SubSeq(events', frame_start + 1, Len(events')))
          IN  /\ completing \in Fragments
              /\ emitted = before
              /\ NarrationOf(SubSeq(events', Len(events) + 1, Len(events'))) = << >>
              /\ messages'[Len(messages')].content[Len(messages'[Len(messages')].content)]
                    = before \o completing]_vars

\* A narration fragment was followed by a fragment holding narration and
\* a whole envelope: only the first was emitted, History holds both.
C36_Witness ==
    /\ pc = "dispatch"
    /\ full_response_segment = << Narration, Narration >> \o Envelope("read_file", JsonA)
    /\ NarrationOf(FrameEvents) = << Narration >>
    /\ LastRecorded = full_response_segment


-----------------------------------------------------------------------------
(* C37: on a stream fault the fragments the frame already emitted as LLM   *)
(* events are not recorded in History: from the frame's generation History *)
(* gains exactly one addition, the fault description, and nothing of the   *)
(* partial response.                                                       *)

\* The texts History holds, entry after entry and part after part.
RECURSIVE Recorded(_)
Recorded(msgs) ==
    IF msgs = << >> THEN << >>
    ELSE Head(msgs).content \o Recorded(Tail(msgs))

StreamFaultStep == pc = "stream" /\ stream_state' = "raised"

C37_FaultRecordsOnlyItself ==
    [][StreamFaultStep =>
          /\ messages = stream_input
          /\ Len(Recorded(messages')) = Len(Recorded(messages)) + 1
          /\ IsPrefix(Recorded(messages), Recorded(messages'))
          /\ \E e \in StreamFaults :
                Recorded(messages')[Len(Recorded(messages'))] = StreamFaultText(e)]_vars

\* A stream faulted after a fragment was emitted as narration; the last
\* text of History is the fault description, recorded after the texts the
\* stream was opened on.
C37_Witness ==
    /\ stream_state = "raised"
    /\ pc = "exhausted"
    /\ full_response_segment # << >>
    /\ CountTag(FrameEvents, "LLM") >= 1
    /\ Recorded(messages) = Recorded(stream_input) \o << StreamFaultText(<< "APIConnectionError" >>) >>


-----------------------------------------------------------------------------
(* C38: on the single-call path the TOOL_RESULT status is error if and     *)
(* only if all attempts failed; whenever an attempt gets a success         *)
(* response from the Gateway, the status is success and the data is the    *)
(* Gateway's result, whatever that result holds.                           *)
SingleDone == DispatchDone /\ SinglePath

\* The TOOL_RESULT events of the frame.
ToolResults == SelectSeq(FrameEvents, LAMBDA e : e.tag = "TOOL_RESULT")
StatusError(e) == Contains(e.payload, << "status=", "error" >>)
AllAttemptsFailed ==
    \A k \in 1..Len(Responses(gw)) : Responses(gw)[k].answer.kind # "ok"

\* When every attempt failed the status is error.
C38_AllFailedIsError ==
    (SingleDone /\ AllAttemptsFailed) =>
       /\ Len(ToolResults) = 1
       /\ StatusError(ToolResults[1])

C38_ErrorIffAllFailed ==
    SingleDone =>
       /\ Len(ToolResults) = 1
       /\ StatusError(ToolResults[1]) <=> AllAttemptsFailed
       /\ \A k \in 1..Len(Responses(gw)) :
             Responses(gw)[k].answer.kind = "ok" =>
                ToolResults[1] = ToolResultEvent(tool_calls[1], "success",
                                     dumps_dict(Responses(gw)[k].answer.result))


-----------------------------------------------------------------------------
(* C39: if the first population of the Gateway's catalog cache yields an   *)
(* empty catalog, the empty catalog is cached as populated: no later       *)
(* access refetches, and every execute request is rejected as tool not     *)
(* found, without contacting a backend, for the rest of the process        *)
(* lifetime.                                                               *)
FirstPopulationEmpty ==
    /\ backend_calls # << >>
    /\ backend_calls[1] = ListCall(<< >>)

\* While the cache holds the empty catalog a get_tools call returns it at
\* once, and a request that got the empty mapping is rejected without a
\* backend call.
C39_EmptyCacheRejects ==
    [][/\ \A i \in 1..MaxAccesses :
             (tools_cache = << << >> >> /\ access[i].pc = "idle"
                 /\ access'[i].pc # "idle") =>
                access'[i] = Returned(<< >>, {})
       /\ (batch.pc = "get_tools" /\ batch'.pc # "get_tools"
             /\ access[batch.slot].mapping = {}) =>
             /\ backend_calls' = backend_calls
             /\ batch'.results[Len(batch'.results)].error = "Tool not found."]_vars

C39_EmptyCatalogForever ==
    FirstPopulationEmpty =>
       /\ tools_cache = << << >> >>
       /\ server_tools_mapping = {}
       /\ \A k \in 1..Len(backend_calls) : backend_calls[k].op = "list_tools"
       /\ \A k \in 1..Len(batch.results) :
             /\ ~batch.results[k].success
             /\ batch.results[k].error = "Tool not found."


-----------------------------------------------------------------------------
(* C40: with the replacing variant (groq) only user messages and           *)
(* narration-only responses are recorded with their own role; a response   *)
(* that holds a tool-call envelope, the outcome summary of a dispatch and  *)
(* a stream-fault description are each recorded as a new entry with role   *)
(* system.                                                                 *)
UserMessageStep == pc = "entry" /\ pc' = "stream"
ResponseStep == pc = "stream" /\ pc' # "stream" /\ stream_state' # "raised"

C40_ReplacingVariantRoles ==
    [][(host_model = "groq" /\ initialized /\ messages' # messages) =>
          LET new == messages'[Len(messages')]
          IN  /\ Len(messages') = Len(messages) + 1
              /\ UserMessageStep \/ ResponseStep \/ StreamFaultStep \/ SummaryStep
              /\ UserMessageStep => new = Msg("user", FALSE, user_message)
              /\ ResponseStep =>
                    new = Msg(IF HasCloseMarker(full_response_segment')
                              THEN "system" ELSE "assistant",
                              FALSE, full_response_segment')
              /\ StreamFaultStep =>
                    /\ new.role = "system"
                    /\ IsPrefix(<< "Error during LLM stream: " >>, new.content[1])
              /\ SummaryStep =>
                    new = Msg("system", FALSE,
                              tool_result_content(tool_results_for_history'))]_vars

\* Under the replacing variant a narration-only turn was followed by a turn
\* that dispatched and then faulted: the entries are the system prompt, a
\* user and an assistant entry, a user entry and three system entries (the
\* response with the envelope, the outcome summary, the fault).
C40_Witness ==
    /\ host_model = "groq"
    /\ Len(messages) = 7
    /\ [ i \in 1..7 |-> messages[i].role ]
          = << "system", "user", "assistant", "user", "system", "system", "system" >>
    /\ HasCloseMarker(messages[5].content[1])
    /\ IsPrefix(<< "Executed tools with results:\n" >>, messages[6].content[1])
    /\ IsPrefix(<< "Error during LLM stream: " >>, messages[7].content[1])

====
